---- MODULE Spec2Model ----
(***************************************************************************)
(* Model of the Recira overlay controller: the host registry's switch      *)
(* view (ovs_manager.py), the VXLAN tunnel manager (vxlan_manager.py) and  *)
(* the network manager (network_manager.py), together with the OVS port    *)
(* tables of the managed hosts that the remote commands act upon.          *)
(*                                                                         *)
(* An IP address a.b.c.d is the pair <<abc, d>>: the first three octets    *)
(* as one number and the last octet.  A port name "vxlan{vni}_{octet}" is  *)
(* the pair <<vni, octet>>; a name <<0, k>> is a port name that is not of  *)
(* that form.                                                              *)
(***************************************************************************)
EXTENDS Integers, Sequences, FiniteSets, TLC

\* ------------------------------------------------------------------ bounds
MaxTunnelId == 3
MaxNetworkId == 2
MaxAutoVni == 2
MaxRestarts == 1
MaxRegistrations == 2
MaxRequests == 3
MaxEnables == 2

\* ------------------------------------------------------- program constants
TunnelVniStart == 100
NetworkVniStart == 1000
FirstId == 1

\* ------------------------------------------------------------ input sets
None == 0
NoIp == <<>>
\* the secret every remote host was registered with
StoredPassword == "secret"
HostNames == {"h1", "h2", "h3"}
UnmanagedIp == <<0, 9>>
TunnelVniInputs == {None, 100}
NetworkVniInputs == {None, 1000}
TunnelPairInputs == {<<1, 3>>, <<1, 2>>, <<1, 5>>}
SwitchListInputs == {<<1, 3>>, <<1, 3, 4>>, <<1, 5>>}
JoinInputs == {4, 5}
Envs == [addFail : {{}, {"h2"}}, delFail : {{}, HostNames}]
SaveOutcomes == {TRUE}
AllOk == [addFail |-> {}, delFail |-> {}]
NetEnvs == {AllOk, [addFail |-> {"h2"}, delFail |-> {}]}
DirectPairInputs == {<<1, 3>>}
DirectVniInputs == {1000}
RemoteNames == {"h2", "h3"}
ScanSets == {{"h2", "h3"}, {"h3"}}
UpSets == {{"h2", "h3"}, {"h3"}}

VARIABLES hosts, next_host_id, hostsFile, ports,
          tunnels, next_tunnel_id, next_vni,
          networks, next_network_id, net_next_vni, netFile,
          dhcp_configs, dhcpFile, machines, now,
          lastOp, server

vars == <<hosts, next_host_id, hostsFile, ports, tunnels, next_tunnel_id,
          next_vni, networks, next_network_id, net_next_vni, netFile,
          dhcp_configs, dhcpFile, machines, now, lastOp,
          server>>

\* The DHCP manager's memory and file, the DHCP side of the machines, and
\* the wall clock.
dhcpVars == <<dhcp_configs, dhcpFile, machines, now>>

\* ------------------------------------------------------------ the hosts
\* The bridges that really exist on each machine (what ovs-vsctl list-br
\* answers when the machine answers).
ActualBridges(hn) == IF hn = "h1" THEN <<"br0", "br1">> ELSE <<"br0">>

BridgeRank(b) == IF b = "br0" THEN 0 ELSE 1

LocalHost(id) ==
  [id |-> id, hostname |-> "h1", ip |-> <<0, 1>>, vxlan_ip |-> <<0, 1>>,
   type |-> "localhost", status |-> "online",
   bridges |-> ActualBridges("h1")]

\* the host_info of discover_remote_host and of _reconnect_host
RemoteHost(id, hn, ip, vxlan_ip, bridges, password) ==
  [id |-> id, hostname |-> hn, ip |-> ip,
   vxlan_ip |-> IF vxlan_ip # NoIp THEN vxlan_ip ELSE ip,
   type |-> "remote", status |-> "online", bridges |-> bridges,
   ssh_user |-> "root", ssh_password |-> password]

InitHosts ==
  <<LocalHost(FirstId),
    RemoteHost(FirstId + 1, "h2", <<1, 7>>, <<0, 2>>, ActualBridges("h2"),
               StoredPassword),
    RemoteHost(FirstId + 2, "h3", <<0, 3>>, NoIp, ActualBridges("h3"),
               StoredPassword)>>

InitNextHostId == FirstId + Len(InitHosts)

\* _save_config: the remote hosts, in the order of the registry
RECURSIVE SavedHosts(_)
SavedHosts(hs) ==
  IF hs = <<>> THEN <<>>
  ELSE (IF Head(hs).type = "localhost" THEN <<>>
        ELSE <<[id |-> Head(hs).id, hostname |-> Head(hs).hostname,
                ip |-> Head(hs).ip, vxlan_ip |-> Head(hs).vxlan_ip,
                ssh_user |-> Head(hs).ssh_user,
                ssh_password |-> Head(hs).ssh_password]>>)
       \o SavedHosts(Tail(hs))

RECURSIVE AllBridges(_)
AllBridges(hs) ==
  IF hs = <<>> THEN <<>>
  ELSE [i \in 1..Len(Head(hs).bridges) |->
          [name |-> Head(hs).bridges[i], host_id |-> Head(hs).id,
           hostname |-> Head(hs).hostname]]
       \o AllBridges(Tail(hs))

GetAllSwitches(hs) ==
  LET b == AllBridges(hs)
  IN [i \in 1..Len(b) |->
        [id |-> FirstId + i - 1, name |-> b[i].name, host_id |-> b[i].host_id,
         hostname |-> b[i].hostname]]

NoSwitch == [id |-> 0, name |-> "", host_id |-> 0, hostname |-> ""]
NoHost == [id |-> 0, hostname |-> "", ip |-> NoIp, vxlan_ip |-> NoIp,
           type |-> "", bridges |-> <<>>]

\* next((s for s in switches if s['id'] == switch_id), None)
GetSwitchById(hs, switch_id) ==
  LET sw == GetAllSwitches(hs)
      hit == {i \in 1..Len(sw) : sw[i].id = switch_id}
  IN IF hit = {} THEN NoSwitch
     ELSE sw[CHOOSE i \in hit : \A j \in hit : i <= j]

GetHostById(hs, host_id) ==
  LET hit == {i \in 1..Len(hs) : hs[i].id = host_id}
  IN IF hit = {} THEN NoHost
     ELSE hs[CHOOSE i \in hit : \A j \in hit : i <= j]

GetHostForSwitch(hs, switch_id) ==
  LET s == GetSwitchById(hs, switch_id)
  IN IF s = NoSwitch THEN NoHost ELSE GetHostById(hs, s.host_id)

GetVxlanIp(host) == IF host.vxlan_ip # NoIp THEN host.vxlan_ip ELSE host.ip

\* ------------------------------------------------------------ port names
Octet(ip) == ip[2]
PortName(vni, ip) == <<vni, Octet(ip)>>

\* ------------------------------------------------------ remote commands
\* ovs-vsctl add-port: refused when the machine does not answer or when a
\* port of that name already exists on the machine.
AddVxlanPort(pt, host, bridge_name, port_name, remote_ip, vni, env) ==
  LET ok == /\ host.hostname \notin env.addFail
            /\ ~\E p \in pt : p.host = host.hostname /\ p.name = port_name
      np == [host |-> host.hostname, bridge |-> bridge_name,
             name |-> port_name, vni |-> vni, remote_ip |-> remote_ip]
  IN [ok |-> ok,
      ports |-> IF ok THEN pt \cup {np} ELSE pt,
      cmd |-> [cmd |-> "add", host |-> host.hostname, bridge |-> bridge_name,
               name |-> port_name, ok |-> ok]]

\* ovs-vsctl del-port: refused when the machine does not answer or when
\* the bridge has no port of that name.
DelVxlanPort(pt, host, bridge_name, port_name, env) ==
  LET hit == {p \in pt : p.host = host.hostname /\ p.bridge = bridge_name
                         /\ p.name = port_name}
      ok == host.hostname \notin env.delFail /\ hit # {}
  IN [ok |-> ok,
      ports |-> IF ok THEN pt \ hit ELSE pt,
      cmd |-> [cmd |-> "del", host |-> host.hostname, bridge |-> bridge_name,
               name |-> port_name, ok |-> ok]]

\* ------------------------------------------------------- tunnel manager
\* The state a tunnel operation threads through: the registry, its two
\* counters, the port tables, the commands issued so far and the id of the
\* tunnel returned (None when the call returned None).
TmState(tn, ntid, nvni, pt) ==
  [tunnels |-> tn, next_tunnel_id |-> ntid, next_vni |-> nvni, ports |-> pt,
   cmds |-> <<>>, vni |-> None, result |-> None]

TunnelInfo(id, src_switch, dst_switch, src_host, dst_host, vni, src_ip, dst_ip, name_src, name_dst, discovered) ==
  [id |-> id, src_switch_id |-> src_switch.id, dst_switch_id |-> dst_switch.id,
   src_switch_name |-> src_switch.name, dst_switch_name |-> dst_switch.name,
   src_host |-> src_host.hostname, dst_host |-> dst_host.hostname,
   vni |-> vni, src_vxlan_ip |-> src_ip, dst_vxlan_ip |-> dst_ip,
   tunnel_name_src |-> name_src, tunnel_name_dst |-> name_dst,
   discovered |-> discovered]

AllocateTunnelVni(nvni) == nvni

CreateTunnelNames(vni, src_vxlan_ip, dst_vxlan_ip) ==
  [src |-> PortName(vni, dst_vxlan_ip), dst |-> PortName(vni, src_vxlan_ip)]

\* The failure branch without its del-port.
RollbackNothing(pt, src_host, bridge_name, port_name, env) ==
  [ok |-> FALSE, ports |-> pt,
   cmd |-> [cmd |-> "none", host |-> src_host.hostname, bridge |-> bridge_name,
            name |-> port_name, ok |-> FALSE]]

\* self._del_vxlan_port(src_host, src_switch['name'], tunnel_name_src)
RollbackSrcPort(pt, src_host, bridge_name, port_name, env) ==
  DelVxlanPort(pt, src_host, bridge_name, port_name, env)

\* A creation that uses up a tunnel id when its second add-port fails.
CreateTunnelCountingFailures(st, hs, src_switch_id, dst_switch_id, vniArg, env) ==
  LET src_switch == GetSwitchById(hs, src_switch_id)
      dst_switch == GetSwitchById(hs, dst_switch_id)
  IN
  IF src_switch = NoSwitch \/ dst_switch = NoSwitch
  THEN [st EXCEPT !.result = None]
  ELSE
    LET vni == IF vniArg = None THEN AllocateTunnelVni(st.next_vni) ELSE vniArg
        nvni == IF vniArg = None THEN st.next_vni + 1 ELSE st.next_vni
        src_host == GetHostById(hs, src_switch.host_id)
        dst_host == GetHostById(hs, dst_switch.host_id)
        src_vxlan_ip == GetVxlanIp(src_host)
        dst_vxlan_ip == GetVxlanIp(dst_host)
        nm == CreateTunnelNames(vni, src_vxlan_ip, dst_vxlan_ip)
        a1 == AddVxlanPort(st.ports, src_host, src_switch.name, nm.src,
                           dst_vxlan_ip, vni, env)
        a2 == AddVxlanPort(a1.ports, dst_host, dst_switch.name, nm.dst,
                           src_vxlan_ip, vni, env)
        rb == RollbackSrcPort(a1.ports, src_host, src_switch.name, nm.src, env)
        info == TunnelInfo(st.next_tunnel_id, src_switch, dst_switch, src_host,
                           dst_host, vni, src_vxlan_ip, dst_vxlan_ip,
                           nm.src, nm.dst, FALSE)
    IN
    IF src_host = NoHost \/ dst_host = NoHost
       \/ src_vxlan_ip = NoIp \/ dst_vxlan_ip = NoIp
    THEN [st EXCEPT !.next_vni = nvni, !.vni = vni, !.result = None]
    ELSE IF ~a1.ok
    THEN [st EXCEPT !.next_vni = nvni, !.vni = vni,
                    !.cmds = Append(@, a1.cmd), !.result = None]
    ELSE IF ~a2.ok
    THEN [st EXCEPT !.next_vni = nvni, !.vni = vni, !.ports = rb.ports,
                    !.cmds = @ \o <<a1.cmd, a2.cmd, rb.cmd>>,
                    !.next_tunnel_id = @ + 1,
                    !.result = None]
    ELSE [st EXCEPT !.next_vni = nvni, !.vni = vni, !.ports = a2.ports,
                    !.cmds = @ \o <<a1.cmd, a2.cmd>>,
                    !.tunnels = @ @@ (st.next_tunnel_id :> info),
                    !.next_tunnel_id = @ + 1,
                    !.result = st.next_tunnel_id]

create_tunnel(st, hs, src_switch_id, dst_switch_id, vniArg, env) ==
  LET src_switch == GetSwitchById(hs, src_switch_id)
      dst_switch == GetSwitchById(hs, dst_switch_id)
  IN
  IF src_switch = NoSwitch \/ dst_switch = NoSwitch
  THEN [st EXCEPT !.result = None]
  ELSE
    LET vni == IF vniArg = None THEN AllocateTunnelVni(st.next_vni) ELSE vniArg
        nvni == IF vniArg = None THEN st.next_vni + 1 ELSE st.next_vni
        src_host == GetHostById(hs, src_switch.host_id)
        dst_host == GetHostById(hs, dst_switch.host_id)
        src_vxlan_ip == GetVxlanIp(src_host)
        dst_vxlan_ip == GetVxlanIp(dst_host)
        nm == CreateTunnelNames(vni, src_vxlan_ip, dst_vxlan_ip)
        a1 == AddVxlanPort(st.ports, src_host, src_switch.name, nm.src,
                           dst_vxlan_ip, vni, env)
        a2 == AddVxlanPort(a1.ports, dst_host, dst_switch.name, nm.dst,
                           src_vxlan_ip, vni, env)
        rb == RollbackSrcPort(a1.ports, src_host, src_switch.name, nm.src, env)
        info == TunnelInfo(st.next_tunnel_id, src_switch, dst_switch, src_host,
                           dst_host, vni, src_vxlan_ip, dst_vxlan_ip,
                           nm.src, nm.dst, FALSE)
    IN
    IF src_host = NoHost \/ dst_host = NoHost
       \/ src_vxlan_ip = NoIp \/ dst_vxlan_ip = NoIp
    THEN [st EXCEPT !.next_vni = nvni, !.vni = vni, !.result = None]
    ELSE IF ~a1.ok
    THEN [st EXCEPT !.next_vni = nvni, !.vni = vni,
                    !.cmds = Append(@, a1.cmd), !.result = None]
    ELSE IF ~a2.ok
    THEN [st EXCEPT !.next_vni = nvni, !.vni = vni, !.ports = rb.ports,
                    !.cmds = @ \o <<a1.cmd, a2.cmd, rb.cmd>>,
                    !.result = None]
    ELSE [st EXCEPT !.next_vni = nvni, !.vni = vni, !.ports = a2.ports,
                    !.cmds = @ \o <<a1.cmd, a2.cmd>>,
                    !.tunnels = @ @@ (st.next_tunnel_id :> info),
                    !.next_tunnel_id = @ + 1,
                    !.result = st.next_tunnel_id]

\* del self.tunnels[tunnel_id]
RemoveKey(f, k) == [i \in DOMAIN f \ {k} |-> f[i]]

\* A deletion that drops the record and sends no command.
ForgetTunnel(st, hs, tunnel_id, env) ==
  IF tunnel_id \notin DOMAIN st.tunnels
  THEN [st EXCEPT !.result = None]
  ELSE [st EXCEPT !.tunnels = RemoveKey(@, tunnel_id), !.result = tunnel_id]

\* A deletion that keeps the record and reports failure when a del-port
\* fails.
DeleteTunnelChecked(st, hs, tunnel_id, env) ==
  IF tunnel_id \notin DOMAIN st.tunnels
  THEN [st EXCEPT !.result = None]
  ELSE
    LET tunnel == st.tunnels[tunnel_id]
        src_host == GetHostForSwitch(hs, tunnel.src_switch_id)
        dst_host == GetHostForSwitch(hs, tunnel.dst_switch_id)
        d1 == DelVxlanPort(st.ports, src_host, tunnel.src_switch_name,
                           tunnel.tunnel_name_src, env)
        d2 == DelVxlanPort(d1.ports, dst_host, tunnel.dst_switch_name,
                           tunnel.tunnel_name_dst, env)
    IN
    IF src_host = NoHost \/ dst_host = NoHost
    THEN [st EXCEPT !.tunnels = RemoveKey(@, tunnel_id), !.result = tunnel_id]
    ELSE IF ~d1.ok \/ ~d2.ok
    THEN [st EXCEPT !.ports = d2.ports, !.cmds = @ \o <<d1.cmd, d2.cmd>>,
                    !.result = None]
    ELSE [st EXCEPT !.tunnels = RemoveKey(@, tunnel_id), !.ports = d2.ports,
                    !.cmds = @ \o <<d1.cmd, d2.cmd>>, !.result = tunnel_id]

delete_tunnel(st, hs, tunnel_id, env) ==
  IF tunnel_id \notin DOMAIN st.tunnels
  THEN [st EXCEPT !.result = None]
  ELSE
    LET tunnel == st.tunnels[tunnel_id]
        src_host == GetHostForSwitch(hs, tunnel.src_switch_id)
        dst_host == GetHostForSwitch(hs, tunnel.dst_switch_id)
        d1 == DelVxlanPort(st.ports, src_host, tunnel.src_switch_name,
                           tunnel.tunnel_name_src, env)
        d2 == DelVxlanPort(d1.ports, dst_host, tunnel.dst_switch_name,
                           tunnel.tunnel_name_dst, env)
    IN
    IF src_host = NoHost \/ dst_host = NoHost
    THEN [st EXCEPT !.tunnels = RemoveKey(@, tunnel_id), !.result = tunnel_id]
    ELSE [st EXCEPT !.tunnels = RemoveKey(@, tunnel_id), !.ports = d2.ports,
                    !.cmds = @ \o <<d1.cmd, d2.cmd>>, !.result = tunnel_id]

\* ------------------------------------------------------------ discovery
IpLess(a, b) == a[1] < b[1] \/ (a[1] = b[1] /\ a[2] < b[2])
NameLess(a, b) == a[1] < b[1] \/ (a[1] = b[1] /\ a[2] < b[2])
PortLess(p, q) ==
  \/ BridgeRank(p.bridge) < BridgeRank(q.bridge)
  \/ p.bridge = q.bridge /\ NameLess(p.name, q.name)

\* The order in which ovs-vsctl show lists the ports: by bridge, by name.
RECURSIVE SortPorts(_)
SortPorts(ps) ==
  IF ps = {} THEN <<>>
  ELSE LET m == CHOOSE p \in ps : \A q \in ps \ {p} : PortLess(p, q)
       IN <<m>> \o SortPorts(ps \ {m})

\* _get_vxlan_ports: the vxlan ports of a host with a key and a remote_ip;
\* the empty list when the command raises.
GetVxlanPorts(host, pt, scan) ==
  IF host.type = "remote" /\ host.hostname \notin scan THEN <<>>
  ELSE SortPorts({p \in pt : p.host = host.hostname /\ p.vni # 0
                             /\ p.remote_ip # NoIp})

\* The key without sorted(): one key per direction.
TunnelKeyDirected(vni, host_ip, remote_ip) == <<vni, host_ip, remote_ip>>

\* tuple(sorted([host_ip, remote_ip])) with the vni in front
TunnelKey(vni, host_ip, remote_ip) ==
  IF IpLess(remote_ip, host_ip) THEN <<vni, remote_ip, host_ip>>
  ELSE <<vni, host_ip, remote_ip>>

FindHostByVxlanIp(hs, vxlan_ip) ==
  LET hit == {i \in 1..Len(hs) : hs[i].vxlan_ip = vxlan_ip \/ hs[i].ip = vxlan_ip}
  IN IF hit = {} THEN NoHost
     ELSE hs[CHOOSE i \in hit : \A j \in hit : i <= j]

FindSwitchOnHost(hs, host_id, bridge_name) ==
  LET sw == GetAllSwitches(hs)
      hit == {i \in 1..Len(sw) : sw[i].host_id = host_id /\ sw[i].name = bridge_name}
  IN IF hit = {} THEN NoSwitch
     ELSE sw[CHOOSE i \in hit : \A j \in hit : i <= j]

FindSwitchOnHostByVxlanIp(hs, vxlan_ip) ==
  LET host == FindHostByVxlanIp(hs, vxlan_ip)
      sw == GetAllSwitches(hs)
      hit == {i \in 1..Len(sw) : sw[i].host_id = host.id}
  IN IF host = NoHost \/ hit = {} THEN NoSwitch
     ELSE sw[CHOOSE i \in hit : \A j \in hit : i <= j]

DiscoveredNames(vni, host_ip, remote_ip) ==
  [src |-> PortName(vni, remote_ip), dst |-> PortName(vni, host_ip)]

BumpNextVni(nvni, vni) == IF vni >= nvni THEN vni + 1 ELSE nvni

\* One iteration of the inner loop of discover_tunnels.
DiscoverPort(ds, hs, host, port_info) ==
  LET host_ip == IF host.vxlan_ip # NoIp THEN host.vxlan_ip ELSE host.ip
      vni == port_info.vni
      remote_ip == port_info.remote_ip
      tunnel_key == TunnelKey(vni, host_ip, remote_ip)
      remote_host == FindHostByVxlanIp(hs, remote_ip)
      src_switch == FindSwitchOnHost(hs, host.id, port_info.bridge)
      dst_switch == FindSwitchOnHostByVxlanIp(hs, remote_ip)
      nm == DiscoveredNames(vni, host_ip, remote_ip)
      info == TunnelInfo(ds.next_tunnel_id, src_switch, dst_switch, host,
                         remote_host, vni, host_ip, remote_ip, nm.src, nm.dst,
                         TRUE)
  IN
  IF tunnel_key \in ds.seen THEN ds
  ELSE IF remote_host = NoHost \/ src_switch = NoSwitch \/ dst_switch = NoSwitch
  THEN [ds EXCEPT !.seen = @ \cup {tunnel_key}]
  ELSE [ds EXCEPT !.seen = @ \cup {tunnel_key},
                  !.tunnels = @ @@ (ds.next_tunnel_id :> info),
                  !.next_tunnel_id = @ + 1,
                  !.discovered = @ + 1,
                  !.next_vni = BumpNextVni(@, vni)]

\* for port_info in vxlan_ports (each step's result is bound as a value
\* before the next step reads it)
RECURSIVE DiscoverPorts(_, _, _, _)
DiscoverPorts(ds, hs, host, plist) ==
  IF plist = <<>> THEN ds
  ELSE CHOOSE out \in {DiscoverPorts(d, hs, host, Tail(plist)) :
                         d \in {DiscoverPort(ds, hs, host, Head(plist))}} : TRUE

\* for host in hosts
RECURSIVE DiscoverHosts(_, _, _, _, _)
DiscoverHosts(ds, hs, rest, pt, scan) ==
  IF rest = <<>> THEN ds
  ELSE CHOOSE out \in
         {DiscoverHosts(d, hs, Tail(rest), pt, scan) :
            d \in {DiscoverPorts(ds, hs, Head(rest),
                                 GetVxlanPorts(Head(rest), pt, scan))}} : TRUE

discover_tunnels(tn, ntid, nvni, hs, pt, scan) ==
  DiscoverHosts([tunnels |-> tn, next_tunnel_id |-> ntid, next_vni |-> nvni,
                 seen |-> {}, discovered |-> 0], hs, hs, pt, scan)

\* ------------------------------------------------------ network manager
Network(network_id, vni, subnet, gateway, switches, tunnel_ids) ==
  [id |-> network_id, vni |-> vni, subnet |-> subnet, gateway |-> gateway,
   switches |-> switches, tunnels |-> tunnel_ids]

UsedVnis(nets) == {nets[i].vni : i \in DOMAIN nets}

RECURSIVE SkipUsed(_, _)
SkipUsed(used, v) == IF v \in used THEN SkipUsed(used, v + 1) ELSE v

\* The allocator without its loop over the VNIs in use.
AllocateWithoutSkip(nets, nvni) == [vni |-> nvni, next_vni |-> nvni + 1]

\* _allocate_vni: the value handed out and the counter afterwards
allocate_vni(nets, nvni) ==
  [vni |-> SkipUsed(UsedVnis(nets), nvni),
   next_vni |-> SkipUsed(UsedVnis(nets), nvni) + 1]

\* The check of the supplied VNI left out.
VniNeverInUse(nets, vni) == FALSE

VniInUse(nets, vni) == \E i \in DOMAIN nets : nets[i].vni = vni

AllResolve(hs, switches) ==
  \A k \in 1..Len(switches) : GetSwitchById(hs, switches[k]) # NoSwitch

\* for i, src in enumerate(switches): for dst in switches[i+1:]
RECURSIVE MeshFrom(_)
MeshFrom(switches) ==
  IF Len(switches) < 2 THEN <<>>
  ELSE [j \in 1..(Len(switches) - 1) |-> <<switches[1], switches[j + 1]>>]
       \o MeshFrom(Tail(switches))

\* The loop pairing each switch with its successor only.
MeshOfNeighbours(switches) ==
  [j \in 1..(Len(switches) - 1) |-> <<switches[j], switches[j + 1]>>]

MeshPairs(switches) == MeshFrom(switches)

\* A join that pairs the new switch with the first member only.
JoinFirstMember(switches, switch_id) ==
  IF switches = <<>> THEN <<>> ELSE <<<<switch_id, switches[1]>>>>

\* for existing_switch_id in network.switches: (switch_id, existing)
JoinPairs(switches, switch_id) ==
  [j \in 1..Len(switches) |-> <<switch_id, switches[j]>>]

\* The loop leaving at the first pair whose create_tunnel returns None.
RECURSIVE CreateTunnelsUntilFailure(_, _, _, _, _, _)
CreateTunnelsUntilFailure(st, hs, pairs, vni, env, created) ==
  IF pairs = <<>> THEN [st |-> st, created |-> created]
  ELSE CHOOSE out \in
         {IF r.result = None THEN [st |-> r, created |-> created]
          ELSE CreateTunnelsUntilFailure(r, hs, Tail(pairs), vni, env,
                                         Append(created, r.result)) :
            r \in {create_tunnel(st, hs, Head(pairs)[1], Head(pairs)[2],
                                 vni, env)}} : TRUE

\* The tunnel-creation loop: every pair is attempted, the ids of the
\* tunnels that were created are collected in order.
RECURSIVE CreateTunnels(_, _, _, _, _, _)
CreateTunnels(st, hs, pairs, vni, env, created) ==
  IF pairs = <<>> THEN [st |-> st, created |-> created]
  ELSE CHOOSE out \in
         {CreateTunnels(r, hs, Tail(pairs), vni, env,
                        IF r.result # None THEN Append(created, r.result)
                        ELSE created) :
            r \in {create_tunnel(st, hs, Head(pairs)[1], Head(pairs)[2],
                                 vni, env)}} : TRUE

\* for tunnel_id in network.tunnels: delete_tunnel(tunnel_id)
RECURSIVE DeleteTunnels(_, _, _, _)
DeleteTunnels(st, hs, ids, env) ==
  IF ids = <<>> THEN st
  ELSE CHOOSE out \in {DeleteTunnels(r, hs, Tail(ids), env) :
                         r \in {delete_tunnel(st, hs, Head(ids), env)}} : TRUE

ConfigDoc(nets, nid, nvni) ==
  [exists |-> TRUE, networks |-> nets, next_network_id |-> nid,
   next_vni |-> nvni]

\* os.path.exists(self.config_file) is false
NoFile == [exists |-> FALSE, networks |-> <<>>, next_network_id |-> 0,
           next_vni |-> 0]

\* _save_config: the document on disk afterwards
SaveConfig(file, nets, nid, nvni, saveOk) ==
  IF saveOk THEN ConfigDoc(nets, nid, nvni) ELSE file

\* _load_config on a fresh NetworkManager
LoadConfig(file) ==
  IF ~file.exists THEN ConfigDoc(<<>>, FirstId, NetworkVniStart) ELSE file

\* --------------------------------------------------------- DHCP manager
\* `if not password`: None and the empty string are both "no password"
NoPassword == ""

\* dict.get(key, default)
HostGet(host, key, default) ==
  IF key \in DOMAIN host THEN host[key] ELSE default

\* A listing that hands out the records as they are stored.
GetAllHostsRaw(hs) == hs

\* OVSManager.get_all_hosts: every host record without its ssh_password
GetAllHosts(hs) ==
  [i \in 1..Len(hs) |-> [k \in DOMAIN hs[i] \ {"ssh_password"} |-> hs[i][k]]]

\* GET /api/hosts: the fields of the formatted_hosts entries, taken from
\* get_all_hosts
ApiHosts(hs) ==
  LET listing == GetAllHosts(hs)
  IN [i \in 1..Len(listing) |->
        [id |-> listing[i].id, hostname |-> listing[i].hostname,
         ip |-> listing[i].ip, type |-> HostGet(listing[i], "type", "unknown"),
         status |-> HostGet(listing[i], "status", "unknown"),
         bridges |-> HostGet(listing[i], "bridges", <<>>)]]

\* safe_host_info of the /api/hosts/add response
SafeHostInfo(host_info) ==
  [k \in DOMAIN host_info \ {"ssh_password"} |-> host_info[k]]

\* DHCPManager._get_host_credentials: the first listed host with that
\* address, read under the keys username and password
get_host_credentials(hs, host_ip) ==
  LET listing == GetAllHosts(hs)
      hit == {i \in 1..Len(listing) :
                \/ HostGet(listing[i], "ip", NoIp) = host_ip
                \/ HostGet(listing[i], "management_ip", NoIp) = host_ip}
  IN IF hit = {} THEN [username |-> "root", password |-> ""]
     ELSE LET i == CHOOSE k \in hit : \A j \in hit : k <= j
          IN [username |-> HostGet(listing[i], "username", "root"),
              password |-> HostGet(listing[i], "password", "")]

\* the credentials block of enable_dhcp, disable_dhcp and the reservation
\* calls: the password of the request, else the one _get_host_credentials
\* finds
ResolvePassword(hs, host_ip, password) ==
  IF password # NoPassword THEN password
  ELSE get_host_credentials(hs, host_ip).password

\* The machine that a command sent to a management address runs on.
MachineAt(hs, host_ip) ==
  LET hit == {i \in 1..Len(hs) : hs[i].ip = host_ip}
  IN IF hit = {} THEN ""
     ELSE hs[CHOOSE k \in hit : \A j \in hit : k <= j].hostname

\* network.subnet.split('/')[1] and int(): the prefix length, None when the
\* text has no slash
SubnetPrefix(subnet) ==
  CASE subnet = "10.1.0.0/24" -> 24
    [] subnet = "10.1.0.0/16" -> 16
    [] OTHER -> None

Pow2(n) == IF n <= 0 THEN 1 ELSE 2 ^ n

\* (0xFFFFFFFF << (32 - prefix)) & 0xFFFFFFFF, octet by octet
MaskOctet(prefix, i) ==
  LET bits == IF prefix - 8 * i >= 8 THEN 8
              ELSE IF prefix - 8 * i <= 0 THEN 0 ELSE prefix - 8 * i
  IN 256 - Pow2(8 - bits)

\* the netmask and the prefix of enable_dhcp; 255.255.255.0 and 24 when the
\* subnet cannot be parsed
Netmask(subnet) ==
  IF SubnetPrefix(subnet) = None
  THEN [netmask |-> <<255, 255, 255, 0>>, prefix |-> 24]
  ELSE [netmask |-> [i \in 1..4 |-> MaskOctet(SubnetPrefix(subnet), i - 1)],
        prefix |-> SubnetPrefix(subnet)]

\* f"vni{vni}-gw"
GwSuffix == -1
GwPortName(vni) == <<vni, GwSuffix>>

\* f'/etc/dnsmasq.d/recira-network-{network_id}.conf'
ConfigPath(network_id) == <<"recira-network", network_id>>

DefaultDns == <<"8.8.8.8", "8.8.4.4">>
DefaultLease == "24h"

\* A MAC address as the request spells it: its twelve hex digits, whether
\* the letters are upper case, and the separator between the pairs.
Mac(digits, upper, sep) == [digits |-> digits, upper |-> upper, sep |-> sep]
NoMac == Mac("", FALSE, "")

\* mac.lower().replace('-', ':')
NormalizeMac(mac) ==
  [mac EXCEPT !.upper = FALSE, !.sep = IF @ = "-" THEN ":" ELSE @]

\* `if mac and ip` of the reservation loop
HasMacAndIp(res) == res.mac # NoMac /\ res.ip # ""

\* _generate_dnsmasq_config: the lines of the file that depend on the
\* arguments; one dhcp-host line per reservation that has a mac and an ip
GenerateDnsmasqConfig(network_id, vni, interface, dhcp_start, dhcp_end, gateway, netmask, lease_time, dns_servers, reservations) ==
  [network_id |-> network_id, vni |-> vni, interface |-> interface,
   dhcp_range |-> <<dhcp_start, dhcp_end, netmask, lease_time>>,
   router |-> gateway, dns_servers |-> dns_servers,
   dhcp_hosts |-> SelectSeq(reservations, HasMacAndIp)]

\* one remote command of the DHCP manager and its exit status
DhcpCmd(cmd, hn, bridge, name, ok) ==
  [cmd |-> cmd, host |-> hn, bridge |-> bridge, name |-> name, ok |-> ok]

\* The DHCP side of the machines: where dnsmasq is installed and running,
\* the internal gateway ports and the dnsmasq configuration files.
InitMachines ==
  [installed |-> {}, active |-> {}, gw_ports |-> {}, conf_files |-> {}]

\* What can go wrong on the machine during one DHCP call.
DhcpOk == "none"
EnableFailures == {"none", "install", "add-port", "link-up", "write", "restart", "restart-not-start"}

\* _install_dnsmasq
install_dnsmasq(m, hn, fail) ==
  IF hn \in m.installed
  THEN [ok |-> TRUE, machines |-> m,
        cmds |-> <<DhcpCmd("which", hn, "", <<>>, TRUE)>>]
  ELSE IF fail = "install"
  THEN [ok |-> FALSE, machines |-> m,
        cmds |-> <<DhcpCmd("which", hn, "", <<>>, FALSE),
                   DhcpCmd("os-release", hn, "", <<>>, TRUE),
                   DhcpCmd("install", hn, "", <<>>, FALSE)>>]
  ELSE [ok |-> TRUE, machines |-> [m EXCEPT !.installed = @ \cup {hn}],
        cmds |-> <<DhcpCmd("which", hn, "", <<>>, FALSE),
                   DhcpCmd("os-release", hn, "", <<>>, TRUE),
                   DhcpCmd("install", hn, "", <<>>, TRUE)>>]

GwPort(hn, bridge, name, addrs, up) ==
  [host |-> hn, bridge |-> bridge, name |-> name, addrs |-> addrs, up |-> up]

\* A gateway-port step that takes its port away again when it fails.
GatewayPortOrUndo(m, hn, bridge, port_name, gateway_ip, prefix, fail) ==
  LET port == GwPort(hn, bridge, port_name, {<<gateway_ip, prefix>>}, TRUE)
      cmds == <<DhcpCmd("list-ports", hn, bridge, port_name, FALSE),
                DhcpCmd("add-port", hn, bridge, port_name, fail # "add-port")>>
  IN IF fail = "add-port" THEN [ok |-> FALSE, machines |-> m, cmds |-> cmds]
     ELSE IF fail = "link-up"
     THEN [ok |-> FALSE, machines |-> m,
           cmds |-> cmds \o
                    <<DhcpCmd("addr-add", hn, bridge, port_name, TRUE),
                      DhcpCmd("link-up", hn, bridge, port_name, FALSE),
                      DhcpCmd("del-port", hn, bridge, port_name, TRUE)>>]
     ELSE [ok |-> TRUE,
           machines |-> [m EXCEPT !.gw_ports =
                           {p \in @ : ~(p.host = hn /\ p.name = port_name)}
                           \cup {port}],
           cmds |-> cmds \o
                    <<DhcpCmd("addr-add", hn, bridge, port_name, TRUE),
                      DhcpCmd("link-up", hn, bridge, port_name, TRUE)>>]

\* A gateway-port step that adds the port without looking for it first.
GatewayPortAlwaysAdded(m, hn, bridge, port_name, gateway_ip, prefix, fail) ==
  LET taken == \E p \in m.gw_ports : p.host = hn /\ p.name = port_name
      port == GwPort(hn, bridge, port_name, {<<gateway_ip, prefix>>}, TRUE)
  IN IF taken \/ fail \in {"add-port", "link-up"}
     THEN [ok |-> FALSE, machines |-> m,
           cmds |-> <<DhcpCmd("add-port", hn, bridge, port_name, FALSE)>>]
     ELSE [ok |-> TRUE,
           machines |-> [m EXCEPT !.gw_ports = @ \cup {port}],
           cmds |-> <<DhcpCmd("add-port", hn, bridge, port_name, TRUE),
                      DhcpCmd("addr-add", hn, bridge, port_name, TRUE),
                      DhcpCmd("link-up", hn, bridge, port_name, TRUE)>>]

\* _create_gateway_port: the port is looked for on the bridge and added when
\* it is not there (OVS refuses a name that is taken on the machine), the
\* address is added whatever the command answers, the link is set up
create_gateway_port(m, hn, bridge, port_name, gateway_ip, prefix, fail) ==
  LET exists == \E p \in m.gw_ports :
                  p.host = hn /\ p.bridge = bridge /\ p.name = port_name
      taken == \E p \in m.gw_ports : p.host = hn /\ p.name = port_name
      addOk == fail # "add-port" /\ ~taken
      list == <<DhcpCmd("list-ports", hn, bridge, port_name, exists)>>
      add == IF exists THEN <<>>
             ELSE <<DhcpCmd("add-port", hn, bridge, port_name, addOk)>>
      added == IF exists THEN m.gw_ports
               ELSE m.gw_ports \cup {GwPort(hn, bridge, port_name, {}, FALSE)}
      addressed == {IF p.host = hn /\ p.name = port_name
                    THEN [p EXCEPT !.addrs = @ \cup {<<gateway_ip, prefix>>}]
                    ELSE p : p \in added}
      raised == {IF p.host = hn /\ p.name = port_name
                 THEN [p EXCEPT !.up = TRUE] ELSE p : p \in addressed}
  IN IF ~exists /\ ~addOk
     THEN [ok |-> FALSE, machines |-> m, cmds |-> list \o add]
     ELSE IF fail = "link-up"
     THEN [ok |-> FALSE, machines |-> [m EXCEPT !.gw_ports = addressed],
           cmds |-> list \o add \o
                    <<DhcpCmd("addr-add", hn, bridge, port_name, TRUE),
                      DhcpCmd("link-up", hn, bridge, port_name, FALSE)>>]
     ELSE [ok |-> TRUE, machines |-> [m EXCEPT !.gw_ports = raised],
           cmds |-> list \o add \o
                    <<DhcpCmd("addr-add", hn, bridge, port_name, TRUE),
                      DhcpCmd("link-up", hn, bridge, port_name, TRUE)>>]

\* echo '...' > config_path on the machine
WriteFile(m, hn, path, content) ==
  [m EXCEPT !.conf_files =
     {f \in @ : ~(f.host = hn /\ f.path = path)} \cup
     {[host |-> hn, path |-> path, content |-> content]}]

\* rm -f config_path on the machine
RemoveFile(m, hn, path) ==
  [m EXCEPT !.conf_files = {f \in @ : ~(f.host = hn /\ f.path = path)}]

\* A lookup that takes the first bridge of the host, member or not.
BridgeOnHost(hs, host_ip, switches) ==
  LET sw == GetAllSwitches(hs)
      hit == {i \in 1..Len(sw) : GetHostById(hs, sw[i].host_id).ip = host_ip}
  IN IF hit = {} THEN ""
     ELSE sw[CHOOSE k \in hit : \A j \in hit : k <= j].name

\* the bridge lookup of enable_dhcp: the name of the first listed switch
\* that is on the host with that management address and is a member of the
\* network; "" when there is none
MemberBridge(hs, host_ip, switches) ==
  LET sw == GetAllSwitches(hs)
      hit == {i \in 1..Len(sw) :
                /\ GetHostById(hs, sw[i].host_id).ip = host_ip
                /\ \E k \in 1..Len(switches) : switches[k] = sw[i].id}
  IN IF hit = {} THEN ""
     ELSE sw[CHOOSE k \in hit : \A j \in hit : k <= j].name

DhcpState(configs, file, m) ==
  [dhcp_configs |-> configs, file |-> file, machines |-> m]

DhcpResult(configs, file, m, success, message, cmds) ==
  [dhcp_configs |-> configs, file |-> file, machines |-> m,
   success |-> success, message |-> message, cmds |-> cmds]

\* os.path.exists(self.config_file) is false
NoDhcpFile == [exists |-> FALSE, dhcp_configs |-> <<>>]

\* DHCPManager._save_config: the document on disk afterwards
SaveDhcpConfig(file, configs, saveOk) ==
  IF saveOk THEN [exists |-> TRUE, dhcp_configs |-> configs] ELSE file

\* DHCPManager._load_config on a fresh manager
LoadDhcpConfig(file) == IF file.exists THEN file.dhcp_configs ELSE <<>>

\* the dictionary that step 5 of enable_dhcp stores
DhcpConfig(host_ip, bridge, port_name, gateway, dhcp_start, dhcp_end, netmask, lease_time, dns_servers, config_path, enabled_at) ==
  [enabled |-> TRUE, host_ip |-> host_ip, bridge |-> bridge,
   port_name |-> port_name, gateway |-> gateway, dhcp_start |-> dhcp_start,
   dhcp_end |-> dhcp_end, netmask |-> netmask, lease_time |-> lease_time,
   dns_servers |-> dns_servers, reservations |-> <<>>,
   config_path |-> config_path, enabled_at |-> enabled_at]

\* steps 1 to 5 of enable_dhcp, once the network, the credentials and the
\* bridge are known
EnableSteps(st, network, hn, host_ip, bridge, dhcp_start, dhcp_end, fail, saveOk, t) ==
  LET mask == Netmask(network.subnet)
      port_name == GwPortName(network.vni)
      path == ConfigPath(network.id)
      s1 == install_dnsmasq(st.machines, hn, fail)
      s2 == create_gateway_port(s1.machines, hn, bridge, port_name,
                                network.gateway, mask.prefix, fail)
      content == GenerateDnsmasqConfig(network.id, network.vni, port_name,
                                       dhcp_start, dhcp_end, network.gateway,
                                       mask.netmask, DefaultLease, DefaultDns,
                                       <<>>)
      c3 == s1.cmds \o s2.cmds
      m3 == WriteFile(s2.machines, hn, path, content)
      c4 == c3 \o <<DhcpCmd("write", hn, "", path, TRUE),
                     DhcpCmd("mkdir", hn, "", <<>>, TRUE)>>
      m5 == [m3 EXCEPT !.active = @ \cup {hn}]
      c5 == c4 \o (IF fail = "restart-not-start"
                   THEN <<DhcpCmd("restart", hn, "", <<>>, FALSE),
                          DhcpCmd("start", hn, "", <<>>, TRUE)>>
                   ELSE <<DhcpCmd("restart", hn, "", <<>>, TRUE)>>)
                \o <<DhcpCmd("enable", hn, "", <<>>, TRUE)>>
      configs == (network.id :>
                    DhcpConfig(host_ip, bridge, port_name, network.gateway,
                               dhcp_start, dhcp_end, mask.netmask,
                               DefaultLease, DefaultDns, path, t))
                 @@ st.dhcp_configs
  IN IF ~s1.ok
     THEN DhcpResult(st.dhcp_configs, st.file, s1.machines, FALSE,
                     "Failed to install dnsmasq", s1.cmds)
     ELSE IF ~s2.ok
     THEN DhcpResult(st.dhcp_configs, st.file, s2.machines, FALSE,
                     "Failed to create gateway port", c3)
     ELSE IF fail = "write"
     THEN DhcpResult(st.dhcp_configs, st.file, s2.machines, FALSE,
                     "Failed to write dnsmasq config",
                     c3 \o <<DhcpCmd("write", hn, "", path, FALSE)>>)
     ELSE IF fail = "restart"
     THEN DhcpResult(st.dhcp_configs, st.file, m3, FALSE,
                     "Failed to start dnsmasq",
                     c4 \o <<DhcpCmd("restart", hn, "", <<>>, FALSE),
                             DhcpCmd("start", hn, "", <<>>, FALSE)>>)
     ELSE DhcpResult(configs, SaveDhcpConfig(st.file, configs, saveOk), m5,
                     TRUE, "DHCP enabled", c5)

\* DHCPManager.enable_dhcp
enable_dhcp(st, nets, hs, network_id, host_ip, dhcp_start, dhcp_end, password, fail, saveOk, t) ==
  LET fails(message) ==
        DhcpResult(st.dhcp_configs, st.file, st.machines, FALSE, message, <<>>)
  IN IF network_id \notin DOMAIN nets THEN fails("Network not found")
     ELSE IF nets[network_id].gateway = ""
     THEN fails("Network must have a gateway IP configured")
     ELSE IF nets[network_id].subnet = ""
     THEN fails("Network must have a subnet configured")
     ELSE IF ResolvePassword(hs, host_ip, password) = NoPassword
     THEN fails("No SSH credentials available for host")
     ELSE IF MemberBridge(hs, host_ip, nets[network_id].switches) = ""
     THEN fails("No switch found on host that is part of network")
     ELSE EnableSteps(st, nets[network_id], MachineAt(hs, host_ip), host_ip,
                      MemberBridge(hs, host_ip, nets[network_id].switches),
                      dhcp_start, dhcp_end, fail, saveOk, t)

\* DHCPManager.disable_dhcp: the three commands are sent without a look at
\* their exit status; down: the machine does not answer
disable_dhcp(st, hs, network_id, password, down, saveOk) ==
  IF network_id \notin DOMAIN st.dhcp_configs
  THEN DhcpResult(st.dhcp_configs, st.file, st.machines, FALSE,
                  "DHCP not enabled for network", <<>>)
  ELSE LET config == st.dhcp_configs[network_id]
           hn == MachineAt(hs, config.host_ip)
           m1 == RemoveFile(st.machines, hn, config.config_path)
           m2 == [m1 EXCEPT !.gw_ports =
                    {p \in @ : ~(p.host = hn /\ p.bridge = config.bridge
                                 /\ p.name = config.port_name)}]
           configs == RemoveKey(st.dhcp_configs, network_id)
       IN IF ResolvePassword(hs, config.host_ip, password) = NoPassword
          THEN DhcpResult(st.dhcp_configs, st.file, st.machines, FALSE,
                          "No SSH credentials available for host", <<>>)
          ELSE DhcpResult(configs, SaveDhcpConfig(st.file, configs, saveOk),
                          IF down THEN st.machines ELSE m2, TRUE,
                          "DHCP disabled",
                          <<DhcpCmd("rm", hn, "", config.config_path, ~down),
                            DhcpCmd("restart", hn, "", <<>>, ~down),
                            DhcpCmd("del-port", hn, config.bridge,
                                    config.port_name, ~down)>>)

\* A reservation list that grows with every request.
AppendReservation(reservations, mac, ip, hostname) ==
  Append(reservations, [mac |-> mac, ip |-> ip, hostname |-> hostname])

\* the duplicate check of add_reservation: the first entry with that mac
\* gets the new ip and hostname, else the reservation is appended
PutReservation(reservations, mac, ip, hostname) ==
  LET hit == {i \in 1..Len(reservations) : reservations[i].mac = mac}
  IN IF hit = {}
     THEN Append(reservations, [mac |-> mac, ip |-> ip, hostname |-> hostname])
     ELSE [reservations EXCEPT ![CHOOSE k \in hit : \A j \in hit : k <= j] =
             [mac |-> mac, ip |-> ip, hostname |-> hostname]]

\* [r for r in config['reservations'] if r['mac'] != mac]
DropReservation(reservations, mac) ==
  LET Keep(r) == r.mac # mac IN SelectSeq(reservations, Keep)

\* "Regenerate config and restart dnsmasq" of add_reservation and
\* delete_reservation: nothing when the network is not found, no restart
\* when the write fails
Redeploy(m, nets, hs, network_id, config, fail) ==
  LET hn == MachineAt(hs, config.host_ip)
      content == GenerateDnsmasqConfig(network_id, nets[network_id].vni,
                   config.port_name, config.dhcp_start, config.dhcp_end,
                   config.gateway, config.netmask, config.lease_time,
                   config.dns_servers, config.reservations)
  IN IF network_id \notin DOMAIN nets THEN [machines |-> m, cmds |-> <<>>]
     ELSE IF fail = "write"
     THEN [machines |-> m,
           cmds |-> <<DhcpCmd("write", hn, "", config.config_path, FALSE)>>]
     ELSE [machines |-> WriteFile(m, hn, config.config_path, content),
           cmds |-> <<DhcpCmd("write", hn, "", config.config_path, TRUE),
                      DhcpCmd("restart", hn, "", <<>>, fail # "restart")>>]

\* DHCPManager.add_reservation
add_reservation(st, nets, hs, network_id, mac, ip, hostname, password, fail, saveOk) ==
  LET fails(message) ==
        DhcpResult(st.dhcp_configs, st.file, st.machines, FALSE, message, <<>>)
  IN IF network_id \notin DOMAIN st.dhcp_configs
     THEN fails("DHCP not enabled for network")
     ELSE IF ResolvePassword(hs, st.dhcp_configs[network_id].host_ip, password)
             = NoPassword
     THEN fails("No SSH credentials available for host")
     ELSE LET config == [st.dhcp_configs[network_id] EXCEPT !.reservations =
                           PutReservation(@, NormalizeMac(mac), ip, hostname)]
              configs == [st.dhcp_configs EXCEPT ![network_id] = config]
              d == Redeploy(st.machines, nets, hs, network_id, config, fail)
          IN DhcpResult(configs, SaveDhcpConfig(st.file, configs, saveOk),
                        d.machines, TRUE, "Reservation added", d.cmds)

\* A deletion that redeploys and reports success whether or not an entry
\* was removed.
DeleteReservationUnchecked(st, nets, hs, network_id, mac, password, fail, saveOk) ==
  LET fails(message) ==
        DhcpResult(st.dhcp_configs, st.file, st.machines, FALSE, message, <<>>)
  IN IF network_id \notin DOMAIN st.dhcp_configs
     THEN fails("DHCP not enabled for network")
     ELSE IF ResolvePassword(hs, st.dhcp_configs[network_id].host_ip, password)
             = NoPassword
     THEN fails("No SSH credentials available for host")
     ELSE LET config == [st.dhcp_configs[network_id] EXCEPT !.reservations =
                           DropReservation(@, NormalizeMac(mac))]
              configs == [st.dhcp_configs EXCEPT ![network_id] = config]
              d == Redeploy(st.machines, nets, hs, network_id, config, fail)
          IN DhcpResult(configs, SaveDhcpConfig(st.file, configs, saveOk),
                        d.machines, TRUE, "Reservation deleted", d.cmds)

\* DHCPManager.delete_reservation
delete_reservation(st, nets, hs, network_id, mac, password, fail, saveOk) ==
  LET fails(message) ==
        DhcpResult(st.dhcp_configs, st.file, st.machines, FALSE, message, <<>>)
  IN IF network_id \notin DOMAIN st.dhcp_configs
     THEN fails("DHCP not enabled for network")
     ELSE IF ResolvePassword(hs, st.dhcp_configs[network_id].host_ip, password)
             = NoPassword
     THEN fails("No SSH credentials available for host")
     ELSE LET old == st.dhcp_configs[network_id].reservations
              config == [st.dhcp_configs[network_id] EXCEPT !.reservations =
                           DropReservation(@, NormalizeMac(mac))]
              configs == [st.dhcp_configs EXCEPT ![network_id] = config]
              d == Redeploy(st.machines, nets, hs, network_id, config, fail)
          IN IF Len(config.reservations) = Len(old)
             THEN fails("Reservation not found")
             ELSE DhcpResult(configs, SaveDhcpConfig(st.file, configs, saveOk),
                             d.machines, TRUE, "Reservation deleted", d.cmds)

\* ------------------------------------------------------------- actions
\* What the last request was and what it answered: the operation, its
\* arguments, whether it reported success, the VNI it used, the id it gave
\* out or acted on, and the remote commands it issued, in order; pre: what
\* the network document, the tunnel registry and the port tables held when
\* a create_network request came in; follows: "create_network" on the
\* delete_network that comes right after the creation of its network;
\* host: the host record in the response of a registration.
NoOp == [op |-> "init", ok |-> TRUE, src |-> 0, dst |-> 0, vniArg |-> None,
         vni |-> 0, id |-> 0, switches |-> <<>>, cmds |-> <<>>,
         up |-> {}, scan |-> {}, host_ip |-> NoIp, password |-> "",
         range |-> <<>>, fail |-> "none", message |-> "", mac |-> NoMac,
         res_ip |-> "", hostname |-> "", follows |-> "",
         host |-> SafeHostInfo(NoHost),
         pre |-> [networks |-> <<>>, tunnels |-> <<>>, ports |-> {}]]

AutoVniAllowed(nv) == nv < TunnelVniStart + MaxAutoVni
NetAutoVniAllowed(nv) == nv < NetworkVniStart + MaxAutoVni

\* POST /api/tunnels/create
CreateTunnel(src, dst, vniArg, env) ==
  /\ next_tunnel_id <= MaxTunnelId
  /\ vniArg = None => AutoVniAllowed(next_vni)
  /\ \E r \in {create_tunnel(TmState(tunnels, next_tunnel_id, next_vni, ports),
                              hosts, src, dst, vniArg, env)} :
        /\ tunnels' = r.tunnels
        /\ next_tunnel_id' = r.next_tunnel_id
        /\ next_vni' = r.next_vni
        /\ ports' = r.ports
        /\ lastOp' = [NoOp EXCEPT !.op = "create_tunnel",
                        !.ok = (r.result # None), !.src = src, !.dst = dst,
                        !.vniArg = vniArg,
                        !.vni = r.vni, !.id = r.result, !.cmds = r.cmds]
  /\ UNCHANGED <<hosts, next_host_id, hostsFile, networks, next_network_id,
                 net_next_vni, netFile>>
  /\ UNCHANGED dhcpVars
  /\ UNCHANGED server

\* POST /api/tunnels/delete
DeleteTunnel(tunnel_id, env) ==
  /\ \E r \in {delete_tunnel(TmState(tunnels, next_tunnel_id, next_vni, ports),
                              hosts, tunnel_id, env)} :
        /\ tunnels' = r.tunnels
        /\ ports' = r.ports
        /\ lastOp' = [NoOp EXCEPT !.op = "delete_tunnel",
                        !.ok = (r.result # None), !.id = tunnel_id,
                        !.cmds = r.cmds]
  /\ UNCHANGED <<hosts, next_host_id, hostsFile, next_tunnel_id, next_vni,
                 networks, next_network_id, net_next_vni, netFile>>
  /\ UNCHANGED dhcpVars
  /\ UNCHANGED server

\* elif not switches or len(switches) < 2
TooFewSwitches(switches) == Len(switches) < 2

\* POST /api/networks/create -> NetworkManager.create_network
CreateNetwork(switches, vniArg, subnet, gateway, env, saveOk) ==
  /\ next_network_id <= MaxNetworkId
  /\ next_tunnel_id + Len(MeshPairs(switches)) <= MaxTunnelId + 1
  /\ vniArg = None => NetAutoVniAllowed(net_next_vni)
  /\ IF \/ TooFewSwitches(switches)
        \/ ~AllResolve(hosts, switches)
        \/ vniArg # None /\ VniInUse(networks, vniArg)
     THEN /\ lastOp' = [NoOp EXCEPT !.op = "create_network", !.ok = FALSE,
                          !.vniArg = vniArg, !.switches = switches]
          /\ UNCHANGED <<ports, tunnels, next_tunnel_id, next_vni, networks,
                         next_network_id, net_next_vni, netFile>>
     ELSE \E a \in {allocate_vni(networks, net_next_vni)} :
          \E vni \in {IF vniArg = None THEN a.vni ELSE vniArg} :
          \E m \in {CreateTunnels(TmState(tunnels, next_tunnel_id, next_vni, ports),
                                  hosts, MeshPairs(switches), vni, env, <<>>)} :
          LET nvni == IF vniArg = None THEN a.next_vni ELSE net_next_vni
              nets == networks @@ (next_network_id :>
                        Network(next_network_id, vni, subnet, gateway,
                                switches, m.created))
          IN /\ tunnels' = m.st.tunnels
             /\ next_tunnel_id' = m.st.next_tunnel_id
             /\ next_vni' = m.st.next_vni
             /\ ports' = m.st.ports
             /\ networks' = nets
             /\ next_network_id' = next_network_id + 1
             /\ net_next_vni' = nvni
             /\ netFile' = SaveConfig(netFile, nets, next_network_id + 1, nvni,
                                      saveOk)
             /\ lastOp' = [NoOp EXCEPT !.op = "create_network", !.ok = TRUE,
                             !.vniArg = vniArg, !.vni = vni,
                             !.id = next_network_id, !.switches = switches,
                             !.cmds = m.st.cmds,
                             !.pre = [networks |-> LoadConfig(netFile).networks,
                                      tunnels |-> tunnels, ports |-> ports]]
  /\ UNCHANGED <<hosts, next_host_id, hostsFile>>
  /\ UNCHANGED dhcpVars
  /\ UNCHANGED server

\* NetworkManager.add_switch_to_network
AddSwitchToNetwork(network_id, switch_id, env, saveOk) ==
  /\ IF \/ network_id \notin DOMAIN networks
        \/ \E k \in 1..Len(networks[network_id].switches) :
              networks[network_id].switches[k] = switch_id
        \/ GetSwitchById(hosts, switch_id) = NoSwitch
     THEN /\ lastOp' = [NoOp EXCEPT !.op = "add_switch", !.ok = FALSE,
                          !.id = network_id, !.src = switch_id]
          /\ UNCHANGED <<ports, tunnels, next_tunnel_id, next_vni, networks,
                         netFile>>
     ELSE \E network \in {networks[network_id]} :
          \E m \in {CreateTunnels(TmState(tunnels, next_tunnel_id, next_vni, ports),
                                  hosts, JoinPairs(network.switches, switch_id),
                                  network.vni, env, <<>>)} :
          LET nets == [networks EXCEPT ![network_id] =
                         Network(network.id, network.vni, network.subnet,
                                 network.gateway,
                                 Append(network.switches, switch_id),
                                 network.tunnels \o m.created)]
          IN /\ next_tunnel_id + Len(network.switches) <= MaxTunnelId + 1
             /\ tunnels' = m.st.tunnels
             /\ next_tunnel_id' = m.st.next_tunnel_id
             /\ next_vni' = m.st.next_vni
             /\ ports' = m.st.ports
             /\ networks' = nets
             /\ netFile' = SaveConfig(netFile, nets, next_network_id,
                                      net_next_vni, saveOk)
             /\ lastOp' = [NoOp EXCEPT !.op = "add_switch", !.ok = TRUE,
                             !.id = network_id, !.src = switch_id,
                             !.vni = network.vni, !.cmds = m.st.cmds]
  /\ UNCHANGED <<hosts, next_host_id, hostsFile, next_network_id, net_next_vni>>
  /\ UNCHANGED dhcpVars
  /\ UNCHANGED server

\* NetworkManager.delete_network of a known network; before: the commands
\* the request has issued already
DeleteNetworkRecord(network_id, env, saveOk, before) ==
  \E r \in {DeleteTunnels(TmState(tunnels, next_tunnel_id, next_vni, ports),
                          hosts, networks[network_id].tunnels, env)} :
  LET nets == RemoveKey(networks, network_id)
  IN /\ tunnels' = r.tunnels
     /\ ports' = r.ports
     /\ networks' = nets
     /\ netFile' = SaveConfig(netFile, nets, next_network_id, net_next_vni,
                              saveOk)
     /\ lastOp' = [NoOp EXCEPT !.op = "delete_network", !.ok = TRUE,
                     !.id = network_id,
                     !.vni = networks[network_id].vni,
                     !.switches = networks[network_id].switches,
                     !.cmds = before \o r.cmds,
                     !.follows = IF /\ lastOp.op = "create_network"
                                    /\ lastOp.ok /\ lastOp.id = network_id
                                 THEN "create_network" ELSE ""]

\* the DHCP step of POST /api/networks/delete: disable_dhcp is called with
\* the network_id alone when get_dhcp_config finds a config
DisableBeforeDelete(st, hs, network_id, down, saveOk) ==
  IF network_id \in DOMAIN st.dhcp_configs
  THEN disable_dhcp(st, hs, network_id, NoPassword, down, saveOk)
  ELSE DhcpResult(st.dhcp_configs, st.file, st.machines, TRUE, "", <<>>)

\* POST /api/networks/delete -> DHCPManager.disable_dhcp, then
\* NetworkManager.delete_network
DeleteNetwork(network_id, env, down, saveOk) ==
  /\ \E dh \in {DisableBeforeDelete(DhcpState(dhcp_configs, dhcpFile, machines),
                                     hosts, network_id, down, saveOk)} :
       /\ dhcp_configs' = dh.dhcp_configs
       /\ dhcpFile' = dh.file
       /\ machines' = dh.machines
       /\ UNCHANGED now
       /\ IF network_id \notin DOMAIN networks
          THEN /\ lastOp' = [NoOp EXCEPT !.op = "delete_network", !.ok = FALSE,
                               !.id = network_id, !.cmds = dh.cmds]
               /\ UNCHANGED <<ports, tunnels, networks, netFile>>
          ELSE DeleteNetworkRecord(network_id, env, saveOk, dh.cmds)
  /\ UNCHANGED <<hosts, next_host_id, hostsFile, next_tunnel_id, next_vni,
                 next_network_id, net_next_vni>>
  /\ UNCHANGED server

\* OVSManager._load_config and _reconnect_host: every saved remote host is
\* put back under its saved id; its bridge list is empty when the machine
\* does not answer.
ReconnectHosts(file, up) ==
  LET HasIpAndPassword(h) == h.ip # NoIp /\ h.ssh_password # NoPassword
      saved == SelectSeq(file.hosts, HasIpAndPassword)
  IN [i \in 1..Len(saved) |->
        RemoteHost(saved[i].id, saved[i].hostname, saved[i].ip,
                   saved[i].vxlan_ip,
                   IF saved[i].hostname \in up
                   THEN ActualBridges(saved[i].hostname) ELSE <<>>,
                   saved[i].ssh_password)]

LoadedNextHostId(file, hs) ==
  LET ids == {hs[i].id : i \in 1..Len(hs)}
      max_id == CHOOSE m \in ids : \A k \in ids : k <= m
  IN IF hs # <<>> /\ max_id >= file.next_host_id THEN max_id + 1
     ELSE file.next_host_id

\* OVSManager._save_config: the remote hosts with their credentials and
\* the counter
SaveHostsConfig(file, hs, nid, saveOk) ==
  IF saveOk THEN [hosts |-> SavedHosts(hs), next_host_id |-> nid] ELSE file

ProbeOk == "none"
\* the probes of discover_remote_host, each of which raises when its
\* command fails
ProbeFailures == {"hostname", "version", "list-br"}

\* A registration that takes its id before it probes.
RegisterThenProbe(hs, nid, file, hn, ip, vxlan_ip, password, fail, saveOk) ==
  [hosts |-> IF fail = ProbeOk
             THEN Append(hs, RemoteHost(nid, hn, ip, vxlan_ip,
                                        ActualBridges(hn), password))
             ELSE hs,
   next_host_id |-> nid + 1,
   file |-> IF fail = ProbeOk
            THEN SaveHostsConfig(file,
                   Append(hs, RemoteHost(nid, hn, ip, vxlan_ip,
                                         ActualBridges(hn), password)),
                   nid + 1, saveOk)
            ELSE file,
   result |-> IF fail = ProbeOk
              THEN RemoteHost(nid, hn, ip, vxlan_ip, ActualBridges(hn), password)
              ELSE NoHost]

\* OVSManager.discover_remote_host; hn: the machine that answers at ip;
\* fail: the probe that raises
discover_remote_host(hs, nid, file, hn, ip, vxlan_ip, password, fail, saveOk) ==
  LET host_info == RemoteHost(nid, hn, ip, vxlan_ip, ActualBridges(hn), password)
      registry == Append(hs, host_info)
  IN IF fail # ProbeOk
     THEN [hosts |-> hs, next_host_id |-> nid, file |-> file,
           result |-> NoHost]
     ELSE [hosts |-> registry, next_host_id |-> nid + 1,
           file |-> SaveHostsConfig(file, registry, nid + 1, saveOk),
           result |-> host_info]

\* POST /api/hosts/add -> OVSManager.discover_remote_host; the host of the
\* response is the record without its ssh_password
RegisterHost(hn, ip, vxlan_ip, password, fail, saveOk) ==
  /\ Len(hostsFile.hosts) < Len(SavedHosts(InitHosts)) + MaxRegistrations
  /\ IF ip = NoIp \/ password = NoPassword
     THEN /\ lastOp' = [NoOp EXCEPT !.op = "add_host", !.ok = FALSE,
                          !.host_ip = ip, !.password = password,
                          !.fail = fail]
          /\ UNCHANGED <<hosts, next_host_id, hostsFile>>
     ELSE \E r \in {discover_remote_host(hosts, next_host_id, hostsFile, hn,
                                          ip, vxlan_ip, password, fail,
                                          saveOk)} :
          /\ hosts' = r.hosts
          /\ next_host_id' = r.next_host_id
          /\ hostsFile' = r.file
          /\ lastOp' = [NoOp EXCEPT !.op = "add_host",
                          !.ok = (r.result # NoHost), !.id = r.result.id,
                          !.host_ip = ip, !.password = password,
                          !.fail = fail, !.hostname = r.result.hostname,
                          !.host = SafeHostInfo(r.result)]
  /\ UNCHANGED <<ports, tunnels, next_tunnel_id, next_vni, networks,
                 next_network_id, net_next_vni, netFile>>
  /\ UNCHANGED dhcpVars
  /\ UNCHANGED server

\* POST /api/hosts/remove: the handler calls ovs_manager.remove_host, a
\* method that OVSManager does not have; the call raises AttributeError,
\* the request gets no response and nothing is changed. keep_data: True
\* asks for a detach, False for a forget.
RemoveHost(host_id, keep_data) ==
  /\ lastOp' = [NoOp EXCEPT !.op = "remove_host", !.ok = FALSE,
                  !.id = host_id,
                  !.fail = IF keep_data THEN "detach" ELSE "forget",
                  !.message = "AttributeError"]
  /\ UNCHANGED <<hosts, next_host_id, hostsFile, ports, tunnels,
                 next_tunnel_id, next_vni, networks, next_network_id,
                 net_next_vni, netFile>>
  /\ UNCHANGED dhcpVars
  /\ UNCHANGED server

\* POST /api/hosts/reattach: ovs_manager.reattach_host does not exist
\* either
ReattachHost(host_id) ==
  /\ lastOp' = [NoOp EXCEPT !.op = "reattach_host", !.ok = FALSE,
                  !.id = host_id, !.message = "AttributeError"]
  /\ UNCHANGED <<hosts, next_host_id, hostsFile, ports, tunnels,
                 next_tunnel_id, next_vni, networks, next_network_id,
                 net_next_vni, netFile>>
  /\ UNCHANGED dhcpVars
  /\ UNCHANGED server

\* A stop and a new start of the controller: module import of ovs_manager
\* (saved hosts reloaded), then main(): discover_localhost, a new
\* VXLANManager with discover_tunnels, a new NetworkManager from its file.
\* up: the remote machines that answer the reconnect probes; scan: those
\* that answer the ovs-vsctl show of discovery.
Restart(up, scan) ==
  \E re \in {ReconnectHosts(hostsFile, up)} :
  \E nh \in {LoadedNextHostId(hostsFile, re)} :
  \E hs \in {Append(re, LocalHost(nh))} :
  \E d \in {discover_tunnels(<<>>, FirstId, TunnelVniStart, hs, ports, scan)} :
  LET doc == LoadConfig(netFile)
  IN /\ next_host_id - Len(hostsFile.hosts)
          < InitNextHostId - Len(SavedHosts(InitHosts)) + MaxRestarts
     /\ d.next_tunnel_id <= MaxTunnelId + 1
     /\ hosts' = hs
     /\ next_host_id' = nh + 1
     /\ tunnels' = d.tunnels
     /\ next_tunnel_id' = d.next_tunnel_id
     /\ next_vni' = d.next_vni
     /\ networks' = doc.networks
     /\ next_network_id' = doc.next_network_id
     /\ net_next_vni' = doc.next_vni
     /\ dhcp_configs' = LoadDhcpConfig(dhcpFile)
     /\ lastOp' = [NoOp EXCEPT !.op = "restart", !.id = d.discovered,
                     !.up = up, !.scan = scan]
     /\ UNCHANGED <<hostsFile, ports, netFile, dhcpFile, machines, now>>
     /\ UNCHANGED server

\* VXLANManager.discover_tunnels called again on the running manager.
DiscoverTunnels(scan) ==
  \E d \in {discover_tunnels(tunnels, next_tunnel_id, next_vni, hosts, ports,
                              scan)} :
     /\ d.next_tunnel_id <= MaxTunnelId + 1
     /\ tunnels' = d.tunnels
     /\ next_tunnel_id' = d.next_tunnel_id
     /\ next_vni' = d.next_vni
     /\ lastOp' = [NoOp EXCEPT !.op = "discover", !.id = d.discovered,
                     !.scan = scan]
     /\ UNCHANGED <<hosts, next_host_id, hostsFile, ports, networks,
                    next_network_id, net_next_vni, netFile>>
     /\ UNCHANGED dhcpVars
     /\ UNCHANGED server

\* POST /api/dhcp/enable -> DHCPManager.enable_dhcp; range: dhcp_start and
\* dhcp_end; the clock is read for enabled_at
EnableDhcp(network_id, host_ip, range, password, fail, saveOk) ==
  /\ now < MaxEnables
  /\ \E r \in {enable_dhcp(DhcpState(dhcp_configs, dhcpFile, machines),
                            networks, hosts, network_id, host_ip, range[1],
                            range[2], password, fail, saveOk, now)} :
       /\ dhcp_configs' = r.dhcp_configs
       /\ dhcpFile' = r.file
       /\ machines' = r.machines
       /\ now' = IF r.success THEN now + 1 ELSE now
       /\ lastOp' = [NoOp EXCEPT !.op = "enable_dhcp", !.ok = r.success,
                       !.id = network_id, !.host_ip = host_ip,
                       !.password = password, !.range = range,
                       !.fail = fail, !.message = r.message,
                       !.cmds = r.cmds]
  /\ UNCHANGED <<hosts, next_host_id, hostsFile, ports, tunnels,
                 next_tunnel_id, next_vni, networks, next_network_id,
                 net_next_vni, netFile>>
  /\ UNCHANGED server

\* POST /api/dhcp/disable -> DHCPManager.disable_dhcp
DisableDhcp(network_id, password, down, saveOk) ==
  /\ \E r \in {disable_dhcp(DhcpState(dhcp_configs, dhcpFile, machines),
                             hosts, network_id, password, down, saveOk)} :
       /\ dhcp_configs' = r.dhcp_configs
       /\ dhcpFile' = r.file
       /\ machines' = r.machines
       /\ lastOp' = [NoOp EXCEPT !.op = "disable_dhcp", !.ok = r.success,
                       !.id = network_id, !.password = password,
                       !.fail = IF down THEN "down" ELSE DhcpOk,
                       !.message = r.message, !.cmds = r.cmds]
  /\ UNCHANGED <<hosts, next_host_id, hostsFile, ports, tunnels,
                 next_tunnel_id, next_vni, networks, next_network_id,
                 net_next_vni, netFile, now>>
  /\ UNCHANGED server

\* POST /api/dhcp/reservation -> DHCPManager.add_reservation
AddReservation(network_id, mac, ip, hostname, password, fail, saveOk) ==
  /\ \E r \in {add_reservation(DhcpState(dhcp_configs, dhcpFile, machines),
                                networks, hosts, network_id, mac, ip,
                                hostname, password, fail, saveOk)} :
       /\ dhcp_configs' = r.dhcp_configs
       /\ dhcpFile' = r.file
       /\ machines' = r.machines
       /\ lastOp' = [NoOp EXCEPT !.op = "add_reservation", !.ok = r.success,
                       !.id = network_id, !.password = password,
                       !.mac = mac, !.res_ip = ip, !.hostname = hostname,
                       !.fail = fail, !.message = r.message, !.cmds = r.cmds]
  /\ UNCHANGED <<hosts, next_host_id, hostsFile, ports, tunnels,
                 next_tunnel_id, next_vni, networks, next_network_id,
                 net_next_vni, netFile, now>>
  /\ UNCHANGED server

\* POST /api/dhcp/reservation/delete -> DHCPManager.delete_reservation
DeleteReservation(network_id, mac, password, fail, saveOk) ==
  /\ \E r \in {delete_reservation(DhcpState(dhcp_configs, dhcpFile, machines),
                                   networks, hosts, network_id, mac,
                                   password, fail, saveOk)} :
       /\ dhcp_configs' = r.dhcp_configs
       /\ dhcpFile' = r.file
       /\ machines' = r.machines
       /\ lastOp' = [NoOp EXCEPT !.op = "delete_reservation",
                       !.ok = r.success, !.id = network_id,
                       !.password = password, !.mac = mac, !.fail = fail,
                       !.message = r.message, !.cmds = r.cmds]
  /\ UNCHANGED <<hosts, next_host_id, hostsFile, ports, tunnels,
                 next_tunnel_id, next_vni, networks, next_network_id,
                 net_next_vni, netFile, now>>
  /\ UNCHANGED server

\* GET /api/dhcp/leases -> DHCPManager.get_dhcp_leases: the lease file
\* /var/lib/misc/dnsmasq-recira-{network_id}.leases is read with one command
\* on the designated host; nothing is stored
GetDhcpLeases(network_id, password) ==
  /\ lastOp' =
       IF network_id \notin DOMAIN dhcp_configs
       THEN [NoOp EXCEPT !.op = "get_dhcp_leases", !.ok = FALSE,
               !.id = network_id, !.password = password,
               !.message = "DHCP not enabled for network"]
       ELSE IF ResolvePassword(hosts, dhcp_configs[network_id].host_ip,
                               password) = NoPassword
       THEN [NoOp EXCEPT !.op = "get_dhcp_leases", !.ok = FALSE,
               !.id = network_id, !.password = password,
               !.message = "No SSH credentials available for host"]
       ELSE [NoOp EXCEPT !.op = "get_dhcp_leases", !.ok = TRUE,
               !.id = network_id, !.password = password,
               !.cmds = <<DhcpCmd("cat",
                            MachineAt(hosts, dhcp_configs[network_id].host_ip),
                            "", <<"recira-leases", network_id>>, TRUE)>>]
  /\ UNCHANGED <<hosts, next_host_id, hostsFile, ports, tunnels,
                 next_tunnel_id, next_vni, networks, next_network_id,
                 net_next_vni, netFile>>
  /\ UNCHANGED dhcpVars
  /\ UNCHANGED server

\* ------------------------------------------------------ the HTTP server
\* main() serves with socketserver.TCPServer: serve_forever accepts one
\* connection, runs its handler to the return and only then accepts the
\* next one; a connection that arrives meanwhile waits in the listen queue.
\* server.pending is that queue, server.running the handlers in progress,
\* server.log the request behind every remote command and every update of
\* a registry or counter, in the order they happened, server.done the
\* responses (the id and the VNI each request obtained), server.arrived
\* the number of requests received.

\* A server that takes the next connection while a handler is running.
AcceptWhileRunning(srv) == TRUE

\* BaseServer.serve_forever: the next connection is taken when the handler
\* of the previous one has returned
CanAccept(srv) == srv.running = <<>>

\* a client sends a request; overlap: another request was waiting or in
\* progress at that moment
Arrive(req) ==
  /\ server.arrived < MaxRequests
  /\ server' = [server EXCEPT
                  !.arrived = @ + 1,
                  !.pending = Append(@, [rid |-> server.arrived + 1,
                                         overlap |-> (server.running # <<>>
                                                      \/ server.pending # <<>>),
                                         req |-> req])]
  /\ UNCHANGED <<hosts, next_host_id, hostsFile, ports, tunnels,
                 next_tunnel_id, next_vni, networks, next_network_id,
                 net_next_vni, netFile, lastOp>>
  /\ UNCHANGED dhcpVars

\* the server takes the connection at the head of the queue and enters
\* do_POST: the handler starts with its request, where it stands (pc), the
\* arguments and locals of the create_tunnel call in progress, the locals
\* of create_network, and the number of enable_dhcp commands sent
Accept ==
  /\ server.pending # <<>>
  /\ CanAccept(server)
  /\ \E q \in {Head(server.pending)} :
       server' = [server EXCEPT
         !.pending = Tail(@),
         !.running = Append(@,
           [rid |-> q.rid, overlap |-> q.overlap, req |-> q.req,
            pc |-> IF q.req.kind = "create_tunnel" THEN "t_begin"
                   ELSE IF q.req.kind = "create_network" THEN "n_begin"
                   ELSE "d_run",
            src |-> q.req.src, dst |-> q.req.dst, vniArg |-> None,
            vni |-> None, tres |-> None, netvni |-> None, netid |-> None,
            pairs |-> <<>>, created |-> <<>>, n |-> 0, ok |-> FALSE])]
  /\ UNCHANGED <<hosts, next_host_id, hostsFile, ports, tunnels,
                 next_tunnel_id, next_vni, networks, next_network_id,
                 net_next_vni, netFile, lastOp>>
  /\ UNCHANGED dhcpVars

\* The handler in progress runs to its next remote command, or sends its
\* response and returns to serve_forever.
\*   TunnelStep: VXLANManager.create_tunnel from one remote command to the
\*   next; TunnelReturn: its return, to the request handler or into the
\*   loop of create_network, which collects the id of a created tunnel;
\*   NetworkStep: NetworkManager.create_network around its calls of
\*   create_tunnel (the network id is read before the loop);
\*   DhcpStep: DHCPManager.enable_dhcp one remote command at a time; what
\*   the commands leave on the machine and step 5 are taken over when the
\*   last command has returned.
Step(i) ==
  LET a == server.running[i]
      hs == hosts
      s == [tunnels |-> tunnels, next_tunnel_id |-> next_tunnel_id,
            next_vni |-> next_vni, ports |-> ports, networks |-> networks,
            next_network_id |-> next_network_id,
            net_next_vni |-> net_next_vni, netFile |-> netFile,
            dhcp_configs |-> dhcp_configs, dhcpFile |-> dhcpFile,
            machines |-> machines, now |-> now]
      Outcome(x, y, ev) == [a |-> x, s |-> y, ev |-> ev]
      TunnelReturn(x, result) ==
        IF x.req.kind = "create_tunnel"
        THEN [x EXCEPT !.tres = result, !.ok = (result # None),
                       !.pc = "respond"]
        ELSE [x EXCEPT !.tres = result, !.pc = "n_loop",
                       !.created = IF result # None THEN Append(@, result)
                                   ELSE @]
      src_switch == GetSwitchById(hs, a.src)
      dst_switch == GetSwitchById(hs, a.dst)
      src_host == GetHostById(hs, src_switch.host_id)
      dst_host == GetHostById(hs, dst_switch.host_id)
      src_vxlan_ip == GetVxlanIp(src_host)
      dst_vxlan_ip == GetVxlanIp(dst_host)
      vni == IF a.pc # "t_begin" THEN a.vni
             ELSE IF a.vniArg = None THEN AllocateTunnelVni(s.next_vni)
             ELSE a.vniArg
      nm == CreateTunnelNames(vni, src_vxlan_ip, dst_vxlan_ip)
      a1 == AddVxlanPort(s.ports, src_host, src_switch.name, nm.src,
                         dst_vxlan_ip, vni, a.req.env)
      a2 == AddVxlanPort(s.ports, dst_host, dst_switch.name, nm.dst,
                         src_vxlan_ip, vni, a.req.env)
      rb == RollbackSrcPort(s.ports, src_host, src_switch.name, nm.src,
                            a.req.env)
      info == TunnelInfo(s.next_tunnel_id, src_switch, dst_switch, src_host,
                         dst_host, vni, src_vxlan_ip, dst_vxlan_ip,
                         nm.src, nm.dst, FALSE)
      counted == [s EXCEPT !.next_vni = IF a.vniArg = None THEN @ + 1 ELSE @]
      bump == IF a.vniArg = None THEN "update" ELSE ""
      TunnelStep ==
        IF a.pc = "t_begin"
        THEN IF src_switch = NoSwitch \/ dst_switch = NoSwitch
             THEN Outcome(TunnelReturn(a, None), s, "")
             ELSE IF src_host = NoHost \/ dst_host = NoHost
                     \/ src_vxlan_ip = NoIp \/ dst_vxlan_ip = NoIp
             THEN Outcome(TunnelReturn([a EXCEPT !.vni = vni], None),
                          counted, bump)
             ELSE Outcome([a EXCEPT !.vni = vni, !.pc = "t_add_src"],
                          counted, bump)
        ELSE IF a.pc = "t_add_src"
        THEN Outcome(IF a1.ok THEN [a EXCEPT !.pc = "t_add_dst"]
                     ELSE TunnelReturn(a, None),
                     [s EXCEPT !.ports = a1.ports], "cmd")
        ELSE IF a.pc = "t_add_dst"
        THEN Outcome([a EXCEPT !.pc = IF a2.ok THEN "t_store"
                                      ELSE "t_rollback"],
                     [s EXCEPT !.ports = a2.ports], "cmd")
        ELSE IF a.pc = "t_rollback"
        THEN Outcome(TunnelReturn(a, None), [s EXCEPT !.ports = rb.ports],
                     "cmd")
        ELSE Outcome(TunnelReturn(a, s.next_tunnel_id),
                     [s EXCEPT !.tunnels = (s.next_tunnel_id :> info) @@ @,
                               !.next_tunnel_id = @ + 1],
                     "update")
      alloc == allocate_vni(s.networks, s.net_next_vni)
      nets == (a.netid :> Network(a.netid, a.netvni, a.req.subnet,
                                  a.req.gateway, a.req.switches, a.created))
              @@ s.networks
      NetworkStep ==
        IF a.pc = "n_begin"
        THEN IF ~AllResolve(hs, a.req.switches)
             THEN Outcome([a EXCEPT !.pc = "respond"], s, "")
             ELSE Outcome([a EXCEPT !.netvni = alloc.vni,
                                    !.vniArg = alloc.vni,
                                    !.netid = s.next_network_id,
                                    !.pairs = MeshPairs(a.req.switches),
                                    !.pc = "n_loop"],
                          [s EXCEPT !.net_next_vni = alloc.next_vni],
                          "update")
        ELSE IF a.pairs # <<>>
        THEN Outcome([a EXCEPT !.src = Head(a.pairs)[1],
                               !.dst = Head(a.pairs)[2],
                               !.pairs = Tail(@), !.pc = "t_begin"], s, "")
        ELSE Outcome([a EXCEPT !.ok = TRUE, !.pc = "respond"],
                     [s EXCEPT !.networks = nets,
                               !.next_network_id = @ + 1,
                               !.netFile = SaveConfig(@, nets,
                                             s.next_network_id + 1,
                                             s.net_next_vni, TRUE)],
                     "update")
      e == enable_dhcp(DhcpState(s.dhcp_configs, s.dhcpFile, s.machines),
                       s.networks, hs, a.req.network_id, a.req.host_ip,
                       a.req.range[1], a.req.range[2], StoredPassword,
                       DhcpOk, TRUE, s.now)
      DhcpStep ==
        IF a.n < Len(e.cmds)
        THEN Outcome([a EXCEPT !.n = @ + 1], s, "cmd")
        ELSE Outcome([a EXCEPT !.ok = e.success, !.pc = "respond"],
                     [s EXCEPT !.dhcp_configs = e.dhcp_configs,
                               !.dhcpFile = e.file,
                               !.machines = e.machines,
                               !.now = IF e.success THEN @ + 1 ELSE @],
                     IF e.success THEN "update" ELSE "")
      HandlerStep ==
        IF a.pc \in {"t_begin", "t_add_src", "t_add_dst", "t_rollback",
                     "t_store"}
        THEN TunnelStep
        ELSE IF a.pc \in {"n_begin", "n_loop"} THEN NetworkStep
        ELSE DhcpStep
      Response ==
        [rid |-> a.rid, overlap |-> a.overlap, kind |-> a.req.kind,
         ok |-> a.ok,
         id |-> IF a.req.kind = "create_tunnel" THEN a.tres
                ELSE IF a.req.kind = "create_network" THEN a.netid
                ELSE a.req.network_id,
         vni |-> IF a.req.kind = "create_tunnel" THEN a.vni
                 ELSE IF a.req.kind = "create_network" THEN a.netvni
                 ELSE None]
  IN
  /\ i \in 1..Len(server.running)
  /\ IF a.pc = "respond"
     THEN /\ server' = [server EXCEPT
                          !.running = SubSeq(@, 1, i - 1)
                                      \o SubSeq(@, i + 1, Len(@)),
                          !.done = Append(@, Response)]
          /\ UNCHANGED <<ports, tunnels, next_tunnel_id, next_vni, networks,
                         next_network_id, net_next_vni, netFile>>
          /\ UNCHANGED dhcpVars
     ELSE \E r \in {HandlerStep} :
          /\ tunnels' = r.s.tunnels
          /\ next_tunnel_id' = r.s.next_tunnel_id
          /\ next_vni' = r.s.next_vni
          /\ ports' = r.s.ports
          /\ networks' = r.s.networks
          /\ next_network_id' = r.s.next_network_id
          /\ net_next_vni' = r.s.net_next_vni
          /\ netFile' = r.s.netFile
          /\ dhcp_configs' = r.s.dhcp_configs
          /\ dhcpFile' = r.s.dhcpFile
          /\ machines' = r.s.machines
          /\ now' = r.s.now
          /\ server' = [server EXCEPT
                          !.running[i] = r.a,
                          !.log = IF r.ev = "" THEN @
                                  ELSE Append(@, <<r.a.rid, r.ev>>)]
  /\ UNCHANGED <<hosts, next_host_id, hostsFile, lastOp>>

\* ----------------------------------------------------------------- Init
\* VXLAN ports configured on the machines by hand, outside the controller.
OobPort(hn, br, name, vni, remote_ip) ==
  [host |-> hn, bridge |-> br, name |-> name, vni |-> vni,
   remote_ip |-> remote_ip]

OobConfigs ==
  { {},
    { OobPort("h2", "br0", <<1000, 3>>, 1000, <<0, 3>>),
      OobPort("h3", "br0", <<1000, 2>>, 1000, <<0, 2>>),
      OobPort("h3", "br0", <<0, 1>>, 1000, UnmanagedIp) },
    { OobPort("h3", "br0", <<100, 7>>, 100, <<1, 7>>) } }

\* The controller after its first start on h1 and the registration of the
\* remote hosts h2 (overlay address different from its management address)
\* and h3.
Init ==
  /\ hosts = InitHosts
  /\ next_host_id = InitNextHostId
  /\ hostsFile = [hosts |-> SavedHosts(InitHosts),
                  next_host_id |-> InitNextHostId]
  /\ ports \in OobConfigs
  /\ tunnels = <<>>
  /\ next_tunnel_id = FirstId
  /\ next_vni = TunnelVniStart
  /\ networks = <<>>
  /\ next_network_id = FirstId
  /\ net_next_vni = NetworkVniStart
  /\ netFile = NoFile
  /\ dhcp_configs = <<>>
  /\ dhcpFile = NoDhcpFile
  /\ machines = InitMachines
  /\ now = 0
  /\ lastOp = NoOp
  /\ server = [pending |-> <<>>, running |-> <<>>, log |-> <<>>,
              done |-> <<>>, arrived |-> 0]

\* The network manager's operations, a restart, and the tunnel manager's
\* two operations called directly next to them.
Next ==
  \/ \E sw \in SwitchListInputs, v \in NetworkVniInputs, e \in NetEnvs,
        ok \in SaveOutcomes : CreateNetwork(sw, v, "", "", e, ok)
  \/ \E n \in 1..MaxNetworkId, s \in JoinInputs, e \in NetEnvs,
        ok \in SaveOutcomes : AddSwitchToNetwork(n, s, e, ok)
  \/ \E n \in 1..(MaxNetworkId + 1), e \in NetEnvs, ok \in SaveOutcomes :
       DeleteNetwork(n, e, FALSE, ok)
  \/ Restart(RemoteNames, RemoteNames)
  \/ \E p \in DirectPairInputs, v \in DirectVniInputs :
       CreateTunnel(p[1], p[2], v, AllOk)
  \/ \E t \in 1..MaxTunnelId : DeleteTunnel(t, AllOk)

Spec == Init /\ [][Next]_vars

\* The tunnel manager on its own, with every input of its operations.
NextTunnels ==
  \/ \E p \in TunnelPairInputs, v \in TunnelVniInputs, e \in Envs :
       CreateTunnel(p[1], p[2], v, e)
  \/ \E t \in 1..(MaxTunnelId + 1), e \in Envs : DeleteTunnel(t, e)
  \/ \E up \in UpSets, scan \in ScanSets : Restart(up, scan)

SpecTunnels == Init /\ [][NextTunnels]_vars

\* The host registry: registrations, restarts with machines that do not
\* answer, and tunnels between the hosts.
OtherPassword == "hunter2"
\* the machine that answers, the management address and the overlay
\* address of a registration: a new machine, and h2 once more
RegisterInputs == {<<"h4", <<0, 4>>, NoIp>>, <<"h2", <<1, 7>>, <<0, 2>>>>}
HostPasswordInputs == {NoPassword, StoredPassword, OtherPassword}

NextHosts ==
  \/ \E m \in RegisterInputs, pw \in HostPasswordInputs,
        f \in {ProbeOk} \cup ProbeFailures :
       RegisterHost(m[1], m[2], m[3], pw, f, TRUE)
  \/ \E up \in UpSets \cup {{"h2", "h3", "h4"}} : Restart(up, up)
  \/ \E p \in TunnelPairInputs : CreateTunnel(p[1], p[2], None, AllOk)

SpecHosts == Init /\ [][NextHosts]_vars

\* The host registry with the requests that remove and reattach hosts.
\* a saved host, and an id that no host has
HostIdInputs == {2, 9}

NextHostRemoval ==
  \/ \E m \in RegisterInputs, pw \in {StoredPassword, OtherPassword} :
       RegisterHost(m[1], m[2], m[3], pw, ProbeOk, TRUE)
  \/ \E h \in HostIdInputs, keep_data \in BOOLEAN : RemoveHost(h, keep_data)
  \/ \E h \in HostIdInputs : ReattachHost(h)
  \/ \E up \in UpSets \cup {{"h2", "h3", "h4"}} : Restart(up, up)

SpecHostRemoval == Init /\ [][NextHostRemoval]_vars

\* Networks created and deleted next to tunnels made directly, with port
\* commands that fail on either call.
NextCreateDelete ==
  \/ \E p \in DirectPairInputs, v \in DirectVniInputs :
       CreateTunnel(p[1], p[2], v, AllOk)
  \/ \E sw \in SwitchListInputs, v \in NetworkVniInputs, e \in Envs :
       CreateNetwork(sw, v, "", "", e, TRUE)
  \/ \E n \in 1..MaxNetworkId, e \in Envs : DeleteNetwork(n, e, FALSE, TRUE)

SpecCreateDelete == Init /\ [][NextCreateDelete]_vars

\* The tunnel manager with discovery run again on the running manager.
NextRediscover ==
  \/ \E p \in TunnelPairInputs, v \in TunnelVniInputs :
       CreateTunnel(p[1], p[2], v, AllOk)
  \/ \E up \in UpSets, scan \in ScanSets : Restart(up, scan)
  \/ \E scan \in ScanSets : DiscoverTunnels(scan)

SpecRediscover == Init /\ [][NextRediscover]_vars

\* The networks with their DHCP service: create_network, delete_network,
\* enable_dhcp and disable_dhcp.
DhcpSwitchInputs == {<<1, 3>>}
AttrInputs == {<<"10.1.0.0/24", "">>, <<"", "10.1.0.1">>, <<"10.1.0.0/24", "10.1.0.1">>}
\* the management addresses of h2, which has a member switch, and of h3
DhcpHostInputs == {<<1, 7>>, <<0, 3>>}
RangeInputs == {<<"10.1.0.10", "10.1.0.250">>, <<"10.1.0.20", "10.1.0.250">>}
PasswordInputs == {NoPassword, StoredPassword}
\* host, range, password and failure of an enable request: every failure of
\* a remote command is tried with one request
EnableInputs ==
  {<<h, r, pw, DhcpOk>> : h \in DhcpHostInputs, r \in RangeInputs, pw \in PasswordInputs}
  \cup {<<<<1, 7>>, <<"10.1.0.10", "10.1.0.250">>, StoredPassword, f>> : f \in EnableFailures}

InitDhcp == Init /\ ports = {}

NextDhcp ==
  \/ \E sw \in DhcpSwitchInputs, a \in AttrInputs :
       CreateNetwork(sw, None, a[1], a[2], AllOk, TRUE)
  \/ \E n \in 1..MaxNetworkId, down \in BOOLEAN :
       DeleteNetwork(n, AllOk, down, TRUE)
  \/ \E n \in 1..(MaxNetworkId + 1), i \in EnableInputs :
       EnableDhcp(n, i[1], i[2], i[3], i[4], TRUE)
  \/ \E n \in 1..MaxNetworkId, pw \in PasswordInputs, down \in BOOLEAN :
       DisableDhcp(n, pw, down, TRUE)

SpecDhcp == InitDhcp /\ [][NextDhcp]_vars

\* The reservations of a DHCP-enabled network. One address is spelled in
\* lower case with colons, in upper case with dashes and with dots; a
\* second address in lower case with colons.
MacInputs == {Mac("aabbccddee01", FALSE, ":"), Mac("aabbccddee01", TRUE, "-"), Mac("aabbccddee01", FALSE, "."), Mac("aabbccddee02", FALSE, ":")}
ReservedInputs == {<<"10.1.0.51", "web">>, <<"10.1.0.52", "">>}
ReservationFailures == {"write", "restart"}
\* mac, ip, hostname, password and failure of a reservation request: a
\* request without password and the failures of the remote commands are
\* tried with one address
AddInputs ==
  {<<mac, r[1], r[2], StoredPassword, DhcpOk>> : mac \in MacInputs, r \in ReservedInputs}
  \cup {<<Mac("aabbccddee01", FALSE, ":"), "10.1.0.51", "web", StoredPassword, f>> : f \in ReservationFailures}
  \cup {<<Mac("aabbccddee01", FALSE, ":"), "10.1.0.51", "web", NoPassword, DhcpOk>>}
DeleteInputs ==
  {<<mac, StoredPassword, DhcpOk>> : mac \in MacInputs}
  \cup {<<Mac("aabbccddee01", FALSE, ":"), StoredPassword, f>> : f \in ReservationFailures}
  \cup {<<Mac("aabbccddee01", FALSE, ":"), NoPassword, DhcpOk>>}

NextReservations ==
  \/ CreateNetwork(<<1, 3>>, None, "10.1.0.0/24", "10.1.0.1", AllOk, TRUE)
  \/ EnableDhcp(1, <<1, 7>>, <<"10.1.0.10", "10.1.0.250">>, StoredPassword, DhcpOk, TRUE)
  \/ \E n \in 1..MaxNetworkId, i \in AddInputs :
       AddReservation(n, i[1], i[2], i[3], i[4], i[5], TRUE)
  \/ \E n \in 1..MaxNetworkId, i \in DeleteInputs :
       DeleteReservation(n, i[1], i[2], i[3], TRUE)

SpecReservations == InitDhcp /\ [][NextReservations]_vars

\* Every operation that takes an id, with ids that are known and ids that
\* are not: tunnels, networks, and the DHCP service with its reservations
\* and leases.
NextUnknownIds ==
  \/ CreateNetwork(<<1, 3>>, None, "10.1.0.0/24", "10.1.0.1", AllOk, TRUE)
  \/ CreateTunnel(1, 4, None, AllOk)
  \/ \E t \in 1..(MaxTunnelId + 1) : DeleteTunnel(t, AllOk)
  \/ \E n \in 1..(MaxNetworkId + 1) : DeleteNetwork(n, AllOk, FALSE, TRUE)
  \/ \E n \in 1..(MaxNetworkId + 1) : AddSwitchToNetwork(n, 4, AllOk, TRUE)
  \/ EnableDhcp(1, <<1, 7>>, <<"10.1.0.10", "10.1.0.250">>, StoredPassword, DhcpOk, TRUE)
  \/ \E n \in 1..MaxNetworkId, pw \in PasswordInputs :
       DisableDhcp(n, pw, FALSE, TRUE)
  \/ \E n \in 1..MaxNetworkId, pw \in PasswordInputs : GetDhcpLeases(n, pw)
  \/ \E n \in 1..MaxNetworkId,
        mac \in {Mac("aabbccddee01", FALSE, ":"),
                 Mac("aabbccddee02", TRUE, "-")} :
       AddReservation(n, mac, "10.1.0.51", "web", StoredPassword, DhcpOk, TRUE)
  \/ \E n \in 1..MaxNetworkId,
        mac \in {Mac("aabbccddee01", FALSE, ":"),
                 Mac("aabbccddee02", TRUE, "-")} :
       DeleteReservation(n, mac, StoredPassword, DhcpOk, TRUE)

SpecUnknownIds == InitDhcp /\ [][NextUnknownIds]_vars

\* The server with requests that arrive while another one is in progress:
\* create_tunnel (one that succeeds, one whose second add-port fails),
\* create_network over two and over three switches, and enable_dhcp on the
\* first network.
NextServer ==
  \/ \E q \in
       { [kind |-> "create_tunnel", src |-> 1, dst |-> 4, switches |-> <<>>,
          subnet |-> "", gateway |-> "", network_id |-> None,
          host_ip |-> NoIp, range |-> <<>>, env |-> AllOk],
         [kind |-> "create_tunnel", src |-> 1, dst |-> 3, switches |-> <<>>,
          subnet |-> "", gateway |-> "", network_id |-> None,
          host_ip |-> NoIp, range |-> <<>>,
          env |-> [addFail |-> {"h2"}, delFail |-> {}]],
         [kind |-> "create_network", src |-> 0, dst |-> 0,
          switches |-> <<1, 3>>, subnet |-> "10.1.0.0/24",
          gateway |-> "10.1.0.1", network_id |-> None, host_ip |-> NoIp,
          range |-> <<>>, env |-> AllOk],
         [kind |-> "create_network", src |-> 0, dst |-> 0,
          switches |-> <<1, 3, 4>>, subnet |-> "", gateway |-> "",
          network_id |-> None, host_ip |-> NoIp, range |-> <<>>,
          env |-> AllOk],
         [kind |-> "enable_dhcp", src |-> 0, dst |-> 0, switches |-> <<>>,
          subnet |-> "", gateway |-> "", network_id |-> 1,
          host_ip |-> <<1, 7>>, range |-> <<"10.1.0.10", "10.1.0.250">>,
          env |-> AllOk] } : Arrive(q)
  \/ Accept
  \/ \E i \in 1..MaxRequests : Step(i)

SpecServer == InitDhcp /\ [][NextServer]_vars

\* ================================================================ claims
Range(s) == {s[k] : k \in 1..Len(s)}
HostByName(hs, hn) == hs[CHOOSE i \in 1..Len(hs) : hs[i].hostname = hn]
Overlay(hs, hn) == GetVxlanIp(HostByName(hs, hn))
AllCmdsOk(c) == \A k \in 1..Len(c) : c[k].ok
PortsOn(pt, sw, vni) ==
  {p \in pt : p.host = sw.hostname /\ p.bridge = sw.name /\ p.vni = vni}

\* ---------------------------------------------------------------- C1
\* C1: after any sequence of create_network (explicit or allocated VNI),
\* add_switch_to_network, delete_network and restart, no two network
\* records carry the same VNI.
C1_NetworkVnisDistinct ==
  \A a, b \in DOMAIN networks : a # b => networks[a].vni # networks[b].vni

\* A network created without a VNI next to a network that holds the value
\* the counter started from.
C1_Witness ==
  /\ lastOp.op = "create_network" /\ lastOp.ok /\ lastOp.vniArg = None
  /\ lastOp.vni = NetworkVniStart + 1
  /\ \E a \in DOMAIN networks :
        a # lastOp.id /\ networks[a].vni = NetworkVniStart

\* ---------------------------------------------------------------- C2
\* C2: for every network N, each tunnel id in N.tunnels names a tunnel of
\* the registry whose two endpoint switches are in N.switches and whose VNI
\* is N.vni, and every tunnel of the registry with that VNI between two
\* switches of N is in N.tunnels.
C2_NetworkTunnelsMatchRegistry ==
  \A n \in DOMAIN networks :
    LET N == networks[n] IN
    /\ \A t \in Range(N.tunnels) :
         /\ t \in DOMAIN tunnels
         /\ tunnels[t].vni = N.vni
         /\ tunnels[t].src_switch_id \in Range(N.switches)
         /\ tunnels[t].dst_switch_id \in Range(N.switches)
    /\ \A t \in DOMAIN tunnels :
         (/\ tunnels[t].vni = N.vni
          /\ tunnels[t].src_switch_id \in Range(N.switches)
          /\ tunnels[t].dst_switch_id \in Range(N.switches))
         => t \in Range(N.tunnels)

\* ---------------------------------------------------------------- C3
\* The request was a create_network of n >= 2 distinct switches on n
\* distinct hosts and every remote command it issued succeeded.
C3Case(op, hs) ==
  /\ op.op = "create_network" /\ op.ok
  /\ Len(op.switches) >= 2
  /\ \A i, j \in 1..Len(op.switches) : i # j =>
        /\ op.switches[i] # op.switches[j]
        /\ GetSwitchById(hs, op.switches[i]).host_id
             # GetSwitchById(hs, op.switches[j]).host_id
  /\ AllCmdsOk(op.cmds)

\* n(n-1)/2 tunnels in the network, exactly one per unordered pair of its
\* switches, each with the network's VNI.
MeshComplete(tn, N) ==
  LET n == Len(N.switches) IN
  /\ 2 * Len(N.tunnels) = n * (n - 1)
  /\ Cardinality(Range(N.tunnels)) = Len(N.tunnels)
  /\ \A t \in Range(N.tunnels) :
       /\ t \in DOMAIN tn
       /\ tn[t].vni = N.vni
       /\ tn[t].src_switch_id # tn[t].dst_switch_id
  /\ \A i, j \in 1..n : i < j =>
       Cardinality({t \in Range(N.tunnels) :
                      {tn[t].src_switch_id, tn[t].dst_switch_id}
                        = {N.switches[i], N.switches[j]}}) = 1

\* C3 as stated: such a create_network makes one tunnel per unordered pair
\* with the network's VNI, and each member bridge ends with exactly n-1
\* VXLAN ports for that VNI.
C3_MeshEndsWithNMinusOnePorts ==
  C3Case(lastOp, hosts) =>
    LET N == networks[lastOp.id] IN
    /\ MeshComplete(tunnels, N)
    /\ \A k \in 1..Len(N.switches) :
         Cardinality(PortsOn(ports, GetSwitchById(hosts, N.switches[k]), N.vni))
           = Len(N.switches) - 1

\* C3 amended: such a create_network makes one tunnel per unordered pair
\* with the network's VNI, removes no port, and adds exactly n-1 VXLAN
\* ports for that VNI to each member bridge (ports with that VNI that the
\* bridge held before the call stay next to them).
C3_MeshAddsNMinusOnePorts ==
  [][C3Case(lastOp', hosts) =>
       LET N == networks'[lastOp'.id] IN
       /\ MeshComplete(tunnels', N)
       /\ ports \subseteq ports'
       /\ \A k \in 1..Len(N.switches) :
            Cardinality(PortsOn(ports' \ ports,
                                GetSwitchById(hosts, N.switches[k]), N.vni))
              = Len(N.switches) - 1]_vars

\* A network of three switches on three hosts, all six add-port commands
\* having succeeded.
C3_Witness ==
  /\ C3Case(lastOp, hosts)
  /\ Len(lastOp.switches) = 3
  /\ Len(lastOp.cmds) = 6
  /\ Len(networks[lastOp.id].tunnels) = 3

\* ---------------------------------------------------------------- C4
SameHostPair(hs, a, b) ==
  /\ GetSwitchById(hs, a) # NoSwitch
  /\ GetSwitchById(hs, b) # NoSwitch
  /\ GetSwitchById(hs, a).host_id = GetSwitchById(hs, b).host_id

\* C4: create_tunnel on two switches of one host is rejected, no VXLAN port
\* is added on any bridge and no record is stored, so every tunnel of the
\* registry has its endpoints on two different hosts.
C4_SameHostRejected ==
  /\ (lastOp.op = "create_tunnel"
      /\ SameHostPair(hosts, lastOp.src, lastOp.dst)) =>
       /\ ~lastOp.ok
       /\ \A k \in 1..Len(lastOp.cmds) :
            ~(lastOp.cmds[k].cmd = "add" /\ lastOp.cmds[k].ok)
  /\ \A t \in DOMAIN tunnels : tunnels[t].src_host # tunnels[t].dst_host

\* ---------------------------------------------------------------- C5
\* The order of the commands of one create_tunnel and what it leaves when
\* one of the two add-port commands fails; always says whether the port
\* added on A has to be absent afterwards whatever the del-port answered.
C5Step(op, src, dst, reg, reg2, ntid, ntid2, pt2, always) ==
  LET c == op.cmds IN
  /\ Len(c) <= 3
  /\ Len(c) >= 1 =>
       c[1].cmd = "add" /\ c[1].host = src.hostname /\ c[1].bridge = src.name
  /\ Len(c) >= 2 =>
       /\ c[1].ok
       /\ c[2].cmd = "add" /\ c[2].host = dst.hostname /\ c[2].bridge = dst.name
  /\ (Len(c) >= 1 /\ ~c[1].ok) =>
       Len(c) = 1 /\ ~op.ok /\ reg2 = reg /\ ntid2 = ntid
  /\ (Len(c) >= 2 /\ ~c[2].ok) =>
       /\ Len(c) = 3
       /\ c[3].cmd = "del" /\ c[3].host = c[1].host
       /\ c[3].bridge = c[1].bridge /\ c[3].name = c[1].name
       /\ ~op.ok /\ reg2 = reg /\ ntid2 = ntid
       /\ (always \/ c[3].ok) =>
            ~\E p \in pt2 : /\ p.host = c[1].host /\ p.bridge = c[1].bridge
                            /\ p.name = c[1].name
  /\ (Len(c) = 2) => c[2].ok /\ op.ok

\* C5 as stated: the port on A is added before the port on B; when the add
\* on A succeeds and the add on B fails, the port created on A is deleted
\* again, failure is reported, no record is stored and no tunnel id is
\* consumed; when the add on A fails no command is issued on B.
C5_RollbackRemovesPort ==
  [][lastOp'.op = "create_tunnel" =>
       C5Step(lastOp', GetSwitchById(hosts, lastOp'.src),
              GetSwitchById(hosts, lastOp'.dst), tunnels, tunnels',
              next_tunnel_id, next_tunnel_id', ports', TRUE)]_vars

\* C5 amended: the same, with the del-port for the port created on A
\* issued as the third command, and that port absent afterwards whenever
\* this del-port succeeds (its result is not looked at).
C5_RollbackIssued ==
  [][lastOp'.op = "create_tunnel" =>
       C5Step(lastOp', GetSwitchById(hosts, lastOp'.src),
              GetSwitchById(hosts, lastOp'.dst), tunnels, tunnels',
              next_tunnel_id, next_tunnel_id', ports', FALSE)]_vars

\* A create_tunnel whose add on A succeeded, whose add on B failed and
\* whose del-port on A succeeded.
C5_Witness ==
  /\ lastOp.op = "create_tunnel" /\ ~lastOp.ok
  /\ Len(lastOp.cmds) = 3
  /\ lastOp.cmds[1].ok /\ ~lastOp.cmds[2].ok /\ lastOp.cmds[3].ok
  /\ lastOp.cmds[1].host # lastOp.cmds[2].host
  /\ ~\E p \in ports : /\ p.host = lastOp.cmds[1].host
                       /\ p.name = lastOp.cmds[1].name

\* ---------------------------------------------------------------- C6
\* C6: the VNI that create_tunnel allocates when it is called without one
\* is carried by no tunnel of the registry and by no network.
C6_AllocatedTunnelVniUnused ==
  [][(lastOp'.op = "create_tunnel" /\ lastOp'.vniArg = None
      /\ lastOp'.vni # None) =>
       /\ \A t \in DOMAIN tunnels : tunnels[t].vni # lastOp'.vni
       /\ \A n \in DOMAIN networks : networks[n].vni # lastOp'.vni]_vars

\* ---------------------------------------------------------------- C7
\* C7: the VNI that create_network allocates when it is called without one
\* is the VNI of no tunnel adopted by discovery and of no tunnel created
\* directly through the tunnel manager.
C7_AllocatedNetworkVniAvoidsTunnels ==
  [][(lastOp'.op = "create_network" /\ lastOp'.ok /\ lastOp'.vniArg = None) =>
       \A t \in DOMAIN tunnels :
         (\/ tunnels[t].discovered
          \/ \A n \in DOMAIN networks : t \notin Range(networks[n].tunnels))
         => tunnels[t].vni # lastOp'.vni]_vars

\* ---------------------------------------------------------------- C8
\* The registry compared by VNI and endpoint pair, ignoring tunnel_id.
TunnelSet(tn) ==
  {<<tn[t].vni, {<<tn[t].src_host, tn[t].src_switch_name>>,
                 <<tn[t].dst_host, tn[t].dst_switch_name>>}>> : t \in DOMAIN tn}

\* C8: a run of discover_tunnels that follows a run of discover_tunnels,
\* the same hosts answering, leaves the same set of tunnels and adds no
\* tunnel record.
C8_DiscoveryIdempotent ==
  [][(lastOp.op \in {"restart", "discover"} /\ lastOp'.op = "discover"
      /\ lastOp'.scan = lastOp.scan) =>
       /\ TunnelSet(tunnels') = TunnelSet(tunnels)
       /\ DOMAIN tunnels' = DOMAIN tunnels]_vars

\* ---------------------------------------------------------------- C9
\* Two ports with one VNI on two hosts, each pointing at the overlay
\* address of the other host.
BidirectionalPair(hs, p, q) ==
  /\ p.host # q.host
  /\ p.vni # 0 /\ p.vni = q.vni
  /\ p.remote_ip = Overlay(hs, q.host)
  /\ q.remote_ip = Overlay(hs, p.host)

PortIsRead(hs, p, scan) ==
  HostByName(hs, p.host).type = "localhost" \/ p.host \in scan

BridgesKnown(hs, hn) == HostByName(hs, hn).bridges = ActualBridges(hn)

RecordsOfPair(tn, hs, p, q) ==
  {t \in DOMAIN tn :
     /\ tn[t].vni = p.vni
     /\ {tn[t].src_vxlan_ip, tn[t].dst_vxlan_ip}
          = {Overlay(hs, p.host), Overlay(hs, q.host)}}

NoRecordForUnmanaged(tn, hs, pt) ==
  \A p \in pt :
    (p.vni # 0 /\ FindHostByVxlanIp(hs, p.remote_ip) = NoHost) =>
      ~\E t \in DOMAIN tn :
         tn[t].src_vxlan_ip = p.remote_ip \/ tn[t].dst_vxlan_ip = p.remote_ip

OneRecordPerPair(tn, hs, pt, scan, anyHost) ==
  \A p, q \in pt :
    (/\ BidirectionalPair(hs, p, q)
     /\ PortIsRead(hs, p, scan) \/ PortIsRead(hs, q, scan)
     /\ anyHost \/ (BridgesKnown(hs, p.host) /\ BridgesKnown(hs, q.host))) =>
      /\ Cardinality(RecordsOfPair(tn, hs, p, q)) = 1
      /\ \A t \in RecordsOfPair(tn, hs, p, q) : tn[t].discovered

\* C9 as stated: in one run of discover_tunnels the two ports of a
\* bidirectional pair yield exactly one record, flagged discovered, and a
\* port whose remote IP matches no host of the registry yields no record.
C9_PairYieldsOneRecord ==
  lastOp.op = "restart" =>
    /\ OneRecordPerPair(tunnels, hosts, ports, lastOp.scan, TRUE)
    /\ NoRecordForUnmanaged(tunnels, hosts, ports)

\* C9 amended: the same for the pairs whose two hosts have their bridges
\* in the switch view (a host that did not answer when it was reconnected
\* has none, and a pair with it yields no record).
C9_ResolvablePairYieldsOneRecord ==
  lastOp.op = "restart" =>
    /\ OneRecordPerPair(tunnels, hosts, ports, lastOp.scan, FALSE)
    /\ NoRecordForUnmanaged(tunnels, hosts, ports)

\* A run that read both ports of a pair between two hosts with known
\* bridges next to a port that points at an unmanaged address, and stored
\* one record.
C9_Witness ==
  /\ lastOp.op = "restart"
  /\ Cardinality(DOMAIN tunnels) = 1
  /\ \E p, q \in ports :
       /\ BidirectionalPair(hosts, p, q)
       /\ PortIsRead(hosts, p, lastOp.scan) /\ PortIsRead(hosts, q, lastOp.scan)
       /\ BridgesKnown(hosts, p.host) /\ BridgesKnown(hosts, q.host)
  /\ \E p \in ports : p.remote_ip = UnmanagedIp

\* --------------------------------------------------------------- C10
\* C10: in every tunnel record tunnel_name_src is vxlan{vni}_{last octet of
\* the overlay IP of the dst host} and tunnel_name_dst is vxlan{vni}_{last
\* octet of the overlay IP of the src host}, the overlay IP being the
\* host's vxlan_ip or, when unset, its management IP.
C10_PortNamesFollowOverlayIps ==
  \A t \in DOMAIN tunnels :
    /\ tunnels[t].tunnel_name_src
         = PortName(tunnels[t].vni, Overlay(hosts, tunnels[t].dst_host))
    /\ tunnels[t].tunnel_name_dst
         = PortName(tunnels[t].vni, Overlay(hosts, tunnels[t].src_host))

\* =============================================================== C11..C20
\* --------------------------------------------------------------- C11
\* Two remote hosts whose overlay addresses differ and end in the same
\* octet (x.x.0.2 and x.x.1.2).
SameOctetHosts ==
  <<LocalHost(FirstId),
    RemoteHost(FirstId + 1, "h2", <<1, 7>>, <<0, 2>>, ActualBridges("h2"),
               StoredPassword),
    RemoteHost(FirstId + 2, "h3", <<1, 2>>, NoIp, ActualBridges("h3"),
               StoredPassword)>>

SameOctetPairInputs == {<<1, 3>>, <<1, 4>>, <<3, 4>>}

InitSameOctet ==
  /\ hosts = SameOctetHosts
  /\ next_host_id = FirstId + Len(SameOctetHosts)
  /\ hostsFile = [hosts |-> SavedHosts(SameOctetHosts),
                  next_host_id |-> FirstId + Len(SameOctetHosts)]
  /\ ports = {}
  /\ tunnels = <<>>
  /\ next_tunnel_id = FirstId
  /\ next_vni = TunnelVniStart
  /\ networks = <<>>
  /\ next_network_id = FirstId
  /\ net_next_vni = NetworkVniStart
  /\ netFile = NoFile
  /\ dhcp_configs = <<>>
  /\ dhcpFile = NoDhcpFile
  /\ machines = InitMachines
  /\ now = 0
  /\ lastOp = NoOp
  /\ server = [pending |-> <<>>, running |-> <<>>, log |-> <<>>,
              done |-> <<>>, arrived |-> 0]

NextSameOctet ==
  \/ \E p \in SameOctetPairInputs, v \in TunnelVniInputs :
       CreateTunnel(p[1], p[2], v, AllOk)
  \/ \E t \in 1..MaxTunnelId : DeleteTunnel(t, AllOk)

SpecSameOctet == InitSameOctet /\ [][NextSameOctet]_vars

\* C11: on one bridge, a tunnel's port gets a name different from the name
\* of every port of that bridge that carries the same VNI towards another
\* overlay address, so its add-port does not collide with that port.
C11_DistinctPeersDistinctNames ==
  [][(lastOp'.op = "create_tunnel" /\ Len(lastOp'.cmds) >= 1) =>
       \A p \in ports :
         (/\ p.host = lastOp'.cmds[1].host
          /\ p.bridge = lastOp'.cmds[1].bridge
          /\ p.vni = lastOp'.vni
          /\ p.remote_ip
               # Overlay(hosts, GetSwitchById(hosts, lastOp'.dst).hostname))
         => /\ p.name # lastOp'.cmds[1].name
            /\ lastOp'.cmds[1].ok]_vars

\* --------------------------------------------------------------- C12
\* The add-port on the source bridge of the pair (s, d) is among the
\* commands c.
PairAttempted(c, hs, s, d, vni) ==
  \E k \in 1..Len(c) :
    /\ c[k].cmd = "add" /\ c[k].host = s.hostname /\ c[k].bridge = s.name
    /\ c[k].name = PortName(vni, Overlay(hs, d.hostname))

\* Both add-port commands of the pair (s, d) are among the commands c, one
\* after the other, and both succeeded.
PairSucceeded(c, hs, s, d, vni) ==
  \E k \in 1..(Len(c) - 1) :
    /\ c[k].cmd = "add" /\ c[k].ok
    /\ c[k].host = s.hostname /\ c[k].bridge = s.name
    /\ c[k].name = PortName(vni, Overlay(hs, d.hostname))
    /\ c[k + 1].cmd = "add" /\ c[k + 1].ok
    /\ c[k + 1].host = d.hostname /\ c[k + 1].bridge = d.name
    /\ c[k + 1].name = PortName(vni, Overlay(hs, s.hostname))

C13Case(op, hs, nets) ==
  /\ op.op = "create_network"
  /\ \/ \E k \in 1..Len(op.switches) :
          GetSwitchById(hs, op.switches[k]) = NoSwitch
     \/ op.vniArg # None /\ \E n \in DOMAIN nets : nets[n].vni = op.vniArg

\* C13: such a create_network is rejected before any remote command and
\* leaves the networks, the tunnel registry, the id and VNI counters, the
\* ports and the saved document as they were.
C13_InvalidCreateChangesNothing ==
  [][C13Case(lastOp', hosts, networks) =>
       /\ ~lastOp'.ok
       /\ lastOp'.cmds = <<>>
       /\ UNCHANGED <<ports, networks, tunnels, next_tunnel_id, next_vni,
                      next_network_id, net_next_vni, netFile>>]_vars

\* A create_network refused for a VNI that an existing network holds.
C13_Witness ==
  /\ lastOp.op = "create_network" /\ ~lastOp.ok
  /\ lastOp.vniArg # None
  /\ \E n \in DOMAIN networks : networks[n].vni = lastOp.vniArg
  /\ \A k \in 1..Len(lastOp.switches) :
       GetSwitchById(hosts, lastOp.switches[k]) # NoSwitch

\* --------------------------------------------------------------- C14
ShortListInputs == {<<>>, <<1>>, <<1, 1>>, <<1, 3>>}

\* Network requests with short switch lists and switch lists that repeat
\* a switch.
NextShortLists ==
  \/ \E sw \in ShortListInputs, v \in NetworkVniInputs, ok \in SaveOutcomes :
       CreateNetwork(sw, v, "", "", AllOk, ok)
  \/ \E n \in 1..MaxNetworkId, s \in JoinInputs, ok \in SaveOutcomes :
       AddSwitchToNetwork(n, s, AllOk, ok)
  \/ \E n \in 1..MaxNetworkId, ok \in SaveOutcomes : DeleteNetwork(n, AllOk, FALSE, ok)

SpecShortLists == Init /\ [][NextShortLists]_vars

\* C14: a create request with fewer than two distinct switches is
\* rejected and issues no remote command, and every network record has at
\* least two distinct switches.
C14_AtLeastTwoDistinctSwitches ==
  /\ (lastOp.op = "create_network"
      /\ Cardinality(Range(lastOp.switches)) < 2) =>
       ~lastOp.ok /\ lastOp.cmds = <<>>
  /\ \A n \in DOMAIN networks :
       Cardinality(Range(networks[n].switches)) >= 2

\* ---------------------------------------------------------------- C15
\* C15: when the deletion of a network reports success, no DhcpConfig, no
\* tunnel of the network and no network record remains for that
\* network_id: DHCP was disabled before the tunnels and the record went.
C15_DeleteLeavesNothing ==
  (lastOp.op = "delete_network" /\ lastOp.ok)
    => /\ lastOp.id \notin DOMAIN dhcp_configs
       /\ lastOp.id \notin DOMAIN networks
       /\ \A t \in DOMAIN tunnels : tunnels[t].vni # lastOp.vni

\* ---------------------------------------------------------------- C16
\* C16: every DhcpConfig of the DHCP manager belongs to a network that
\* exists, has a gateway, and has a member switch on the host the config
\* names.
C16_ConfigsBelongToNetworks ==
  \A n \in DOMAIN dhcp_configs :
     /\ n \in DOMAIN networks
     /\ networks[n].gateway # ""
     /\ MemberBridge(hosts, dhcp_configs[n].host_ip, networks[n].switches) # ""

\* ---------------------------------------------------------------- C17
\* the host registry holds a remote host at that management address with a
\* stored password
CredentialsStored(hs, host_ip) ==
  \E i \in 1..Len(hs) :
     /\ hs[i].ip = host_ip /\ hs[i].type = "remote"
     /\ HostGet(hs[i], "ssh_password", "") # ""

\* C17: enable_dhcp without credentials in the request, for a registered
\* remote host with stored credentials and a network with gateway, subnet
\* and a member switch on that host, every remote command succeeding,
\* reports success and stores a DhcpConfig whose gateway port is
\* vni{vni}-gw on the member bridge.
C17_StoredCredentialsUsed ==
  (/\ lastOp.op = "enable_dhcp" /\ lastOp.password = NoPassword
   /\ lastOp.fail = DhcpOk
   /\ CredentialsStored(hosts, lastOp.host_ip)
   /\ lastOp.id \in DOMAIN networks
   /\ networks[lastOp.id].gateway # "" /\ networks[lastOp.id].subnet # ""
   /\ MemberBridge(hosts, lastOp.host_ip, networks[lastOp.id].switches) # "")
    => /\ lastOp.ok
       /\ lastOp.id \in DOMAIN dhcp_configs
       /\ dhcp_configs[lastOp.id].port_name = GwPortName(networks[lastOp.id].vni)
       /\ dhcp_configs[lastOp.id].bridge =
            MemberBridge(hosts, lastOp.host_ip, networks[lastOp.id].switches)

\* ---------------------------------------------------------------- C18
\* no switch of the list is on the host with that management address
NoMemberOn(hs, host_ip, switches) ==
  \A k \in 1..Len(switches) :
     GetHostForSwitch(hs, switches[k]) = NoHost
     \/ GetHostForSwitch(hs, switches[k]).ip # host_ip

C18Case(nets, hs, network_id, host_ip) ==
  \/ network_id \notin DOMAIN nets
  \/ nets[network_id].gateway = ""
  \/ nets[network_id].subnet = ""
  \/ NoMemberOn(hs, host_ip, nets[network_id].switches)

\* C18: enable_dhcp for a network that does not exist, has no gateway, has
\* no subnet or has no member switch on the designated host fails, issues
\* no remote command on any host and creates no DhcpConfig.
C18_PreconditionFailureIsClean ==
  [][(lastOp'.op = "enable_dhcp"
      /\ C18Case(networks, hosts, lastOp'.id, lastOp'.host_ip))
     => /\ ~lastOp'.ok
        /\ lastOp'.cmds = <<>>
        /\ UNCHANGED <<dhcp_configs, dhcpFile, machines, ports>>]_vars

\* enable_dhcp with a password has been refused for a network with gateway
\* and subnet whose switches are all on other hosts
C18_Witness ==
  /\ lastOp.op = "enable_dhcp" /\ ~lastOp.ok
  /\ lastOp.password # NoPassword
  /\ lastOp.id \in DOMAIN networks
  /\ networks[lastOp.id].gateway # "" /\ networks[lastOp.id].subnet # ""
  /\ NoMemberOn(hosts, lastOp.host_ip, networks[lastOp.id].switches)
  /\ CredentialsStored(hosts, lastOp.host_ip)

\* ---------------------------------------------------------------- C19
\* the step of enable_dhcp a remote command belongs to; 0 for a command of
\* no step
StepOf(cmd) ==
  CASE cmd \in {"which", "os-release", "install"} -> 1
    [] cmd \in {"list-ports", "add-port", "addr-add", "link-up"} -> 2
    [] cmd \in {"write", "mkdir"} -> 3
    [] cmd \in {"restart", "start", "enable"} -> 4
    [] OTHER -> 0

StepMessage(step) ==
  CASE step = 1 -> "Failed to install dnsmasq"
    [] step = 2 -> "Failed to create gateway port"
    [] step = 3 -> "Failed to write dnsmasq config"
    [] OTHER -> "Failed to start dnsmasq"

\* the commands are those of steps 1, 2, ... in this order, none skipped
StepsInOrder(c) ==
  /\ \A i \in 1..Len(c) : StepOf(c[i].cmd) \in 1..4
  /\ \A i, j \in 1..Len(c) : i < j => StepOf(c[i].cmd) <= StepOf(c[j].cmd)
  /\ \A i \in 1..Len(c) : \A st \in 1..StepOf(c[i].cmd) :
        \E j \in 1..i : StepOf(c[j].cmd) = st

\* nothing that was on the machines before has been taken away, and what
\* the commands of the log made is there
NothingUndone(m, m2, c) ==
  /\ m.installed \subseteq m2.installed
  /\ m.active \subseteq m2.active
  /\ \A p \in m.gw_ports : \E q \in m2.gw_ports :
        q.host = p.host /\ q.bridge = p.bridge /\ q.name = p.name
  /\ \A f \in m.conf_files : \E g \in m2.conf_files :
        g.host = f.host /\ g.path = f.path
  /\ \A i \in 1..Len(c) :
        /\ (c[i].cmd = "add-port" /\ c[i].ok)
             => \E q \in m2.gw_ports : q.host = c[i].host
                   /\ q.bridge = c[i].bridge /\ q.name = c[i].name
        /\ (c[i].cmd = "write" /\ c[i].ok)
             => \E g \in m2.conf_files : g.host = c[i].host /\ g.path = c[i].name
        /\ (c[i].cmd = "install" /\ c[i].ok) => c[i].host \in m2.installed

Restarted(c) ==
  \E i \in 1..Len(c) : c[i].cmd \in {"restart", "start"} /\ c[i].ok

\* a DhcpConfig without the time it was stored at
Untimed(config) == [config EXCEPT !.enabled_at = 0]

\* An enable_dhcp request right after a successful one with the same
\* arguments, every command succeeding: it succeeds, the gateway port is
\* found and not added again, the ports and the config files of the
\* machines are what they were, dnsmasq is restarted by both calls, and
\* the DhcpConfig is the same, with its enabled_at when timed.
C20Step(op, op2, configs, configs2, m, m2, timed) ==
  (/\ op.op = "enable_dhcp" /\ op.ok
   /\ op2.op = "enable_dhcp" /\ op2.fail = DhcpOk
   /\ op2.id = op.id /\ op2.host_ip = op.host_ip /\ op2.range = op.range
   /\ op2.password = op.password)
    => /\ op2.ok
       /\ DOMAIN configs2 = DOMAIN configs
       /\ \A n \in DOMAIN configs :
            IF timed THEN configs2[n] = configs[n]
            ELSE Untimed(configs2[n]) = Untimed(configs[n])
       /\ m2.gw_ports = m.gw_ports
       /\ m2.conf_files = m.conf_files
       /\ \A i \in 1..Len(op2.cmds) : op2.cmds[i].cmd # "add-port"
       /\ \E i \in 1..Len(op2.cmds) :
            op2.cmds[i].cmd = "list-ports" /\ op2.cmds[i].ok
       /\ Restarted(op.cmds) /\ Restarted(op2.cmds)

\* C20: enable_dhcp called twice in a row with identical arguments yields
\* the same DhcpConfig, the same gateway port (reused) and the same config
\* file content as a single call, and dnsmasq is restarted on both calls.
C20_SecondEnableSameConfig ==
  [][C20Step(lastOp, lastOp', dhcp_configs, dhcp_configs', machines, machines', TRUE)]_vars

\* C20, amended: the same, the DhcpConfig being the same in every field
\* but enabled_at, which holds the time of the second call.
C20_SecondEnableSameButTime ==
  [][C20Step(lastOp, lastOp', dhcp_configs, dhcp_configs', machines, machines', FALSE)]_vars

\* a second successful enable_dhcp has found the gateway port of its
\* network on the bridge and has stored a config with a later time
C20_Witness ==
  /\ lastOp.op = "enable_dhcp" /\ lastOp.ok /\ lastOp.fail = DhcpOk
  /\ \E i \in 1..Len(lastOp.cmds) :
        lastOp.cmds[i].cmd = "list-ports" /\ lastOp.cmds[i].ok
  /\ dhcp_configs[lastOp.id].enabled_at > 0
  /\ dhcp_configs[lastOp.id].dhcp_start = lastOp.range[1]

\* ------------------------------------------------------------------ C21
\* C21: after any sequence of add_reservation and delete_reservation on a
\* DHCP-enabled network the reservation list holds at most one entry per
\* MAC, and add_reservation for a MAC that is already in the list puts the
\* new ip and hostname into that entry and adds no second one.
OneEntryPerMac(configs) ==
  \A n \in DOMAIN configs :
    \A i, j \in 1..Len(configs[n].reservations) :
      configs[n].reservations[i].mac = configs[n].reservations[j].mac => i = j

\* the request was accepted for a MAC the list already held
C21Case ==
  /\ lastOp'.op = "add_reservation" /\ lastOp'.ok
  /\ lastOp'.id \in DOMAIN dhcp_configs
  /\ \E i \in 1..Len(dhcp_configs[lastOp'.id].reservations) :
       dhcp_configs[lastOp'.id].reservations[i].mac = NormalizeMac(lastOp'.mac)

C21Step ==
  /\ OneEntryPerMac(dhcp_configs')
  /\ C21Case =>
       LET old == dhcp_configs[lastOp'.id].reservations
           new == dhcp_configs'[lastOp'.id].reservations
       IN /\ Len(new) = Len(old)
          /\ \A i \in 1..Len(old) :
               IF old[i].mac = NormalizeMac(lastOp'.mac)
               THEN new[i] = [mac |-> old[i].mac, ip |-> lastOp'.res_ip,
                              hostname |-> lastOp'.hostname]
               ELSE new[i] = old[i]

C22Step ==
  (/\ lastOp'.op = "disable_dhcp"
   /\ lastOp'.id \in DOMAIN dhcp_configs
   /\ lastOp'.fail = DhcpOk)
  => LET config == dhcp_configs[lastOp'.id]
         hn == MachineAt(hosts, config.host_ip)
     IN /\ lastOp'.ok
        /\ lastOp'.cmds =
             <<DhcpCmd("rm", hn, "", config.config_path, TRUE),
               DhcpCmd("restart", hn, "", <<>>, TRUE),
               DhcpCmd("del-port", hn, config.bridge, config.port_name, TRUE)>>
        /\ \A f \in machines'.conf_files :
             ~(f.host = hn /\ f.path = config.config_path)
        /\ \A p \in machines'.gw_ports :
             ~(p.host = hn /\ p.bridge = config.bridge
               /\ p.name = config.port_name)
        /\ lastOp'.id \notin DOMAIN dhcp_configs'
        /\ LoadDhcpConfig(dhcpFile') = dhcp_configs'

C22_DisableOrder == [][C22Step]_vars

\* ------------------------------------------------------------------ C23
\* delete_network of the network that the create_network just before it
\* made
C23Case ==
  /\ lastOp.op = "create_network" /\ lastOp.ok
  /\ lastOp'.op = "delete_network" /\ lastOp'.id = lastOp.id

C23Restored ==
  /\ LoadConfig(netFile').networks = lastOp.pre.networks
  /\ tunnels' = lastOp.pre.tunnels
  /\ ports' = lastOp.pre.ports

DelPortsSucceeded(cmds) ==
  \A k \in 1..Len(cmds) : cmds[k].cmd = "del" => cmds[k].ok

C24Step ==
  lastOp'.op = "restart"
  => /\ networks' = networks /\ networks' = LoadConfig(netFile).networks
     /\ dhcp_configs' = dhcp_configs
     /\ dhcp_configs' = LoadDhcpConfig(dhcpFile)
     /\ \A t \in DOMAIN tunnels :
          t \in DOMAIN tunnels' /\ tunnels'[t] = tunnels[t]

C24_RestartRestoresRecords == [][C24Step]_vars

\* ------------------------------------------------------------------ C25
\* both endpoints of the tunnel resolve to a host
BothHostsResolve(tunnel) ==
  /\ GetHostForSwitch(hosts, tunnel.src_switch_id) # NoHost
  /\ GetHostForSwitch(hosts, tunnel.dst_switch_id) # NoHost

\* the del-port commands of the log, without their outcome
DelAttempts(cmds) ==
  [k \in 1..Len(cmds) |-> <<cmds[k].cmd, cmds[k].host, cmds[k].bridge, cmds[k].name>>]

\* C25: delete_tunnel of a known tunnel_id always removes the tunnel from
\* the registry and reports success, also when a host or switch of an
\* endpoint does not resolve and when a del-port command fails; when both
\* hosts resolve, a del-port is attempted on the source side and then on
\* the destination side.
C25Step ==
  (lastOp'.op = "delete_tunnel" /\ lastOp'.id \in DOMAIN tunnels)
  => LET tunnel == tunnels[lastOp'.id]
     IN /\ lastOp'.ok
        /\ tunnels' = RemoveKey(tunnels, lastOp'.id)
        /\ BothHostsResolve(tunnel) =>
             DelAttempts(lastOp'.cmds) =
               <<<<"del", GetHostForSwitch(hosts, tunnel.src_switch_id).hostname,
                   tunnel.src_switch_name, tunnel.tunnel_name_src>>,
                 <<"del", GetHostForSwitch(hosts, tunnel.dst_switch_id).hostname,
                   tunnel.dst_switch_name, tunnel.tunnel_name_dst>>>>

IsMember(network, switch_id) ==
  \E k \in 1..Len(network.switches) : network.switches[k] = switch_id

\* the first command of each create_tunnel call of the join: the add-port
\* on the bridge of the new switch
FirstAdds(cmds, sw) ==
  LET OnNew(c) == c.cmd = "add" /\ c.host = GetHostById(hosts, sw.host_id).hostname
                  /\ c.bridge = sw.name
      adds == SelectSeq(cmds, OnNew)
  IN [k \in 1..Len(adds) |-> adds[k].name]

\* the ids of the tunnels that the step put into the registry, ascending
RECURSIVE Ascending(_)
Ascending(ids) ==
  IF ids = {} THEN <<>>
  ELSE LET m == CHOOSE i \in ids : \A j \in ids : i <= j
       IN <<m>> \o Ascending(ids \ {m})

\* C26: add_switch_to_network rejects, with no remote command and no state
\* change, a switch that is already a member or that does not resolve;
\* otherwise it attempts one tunnel with the network's VNI from the new
\* switch to each existing member, and afterwards the switch is appended
\* to the network's switches, the ids of the tunnels that were created are
\* appended to its tunnels, and the document on disk holds the result.
C26Step ==
  (lastOp'.op = "add_switch" /\ lastOp'.id \in DOMAIN networks)
  => LET network == networks[lastOp'.id]
         switch_id == lastOp'.src
         sw == GetSwitchById(hosts, switch_id)
         created == Ascending(DOMAIN tunnels' \ DOMAIN tunnels)
     IN IF IsMember(network, switch_id) \/ sw = NoSwitch
        THEN /\ ~lastOp'.ok /\ lastOp'.cmds = <<>>
             /\ UNCHANGED <<networks, netFile, tunnels, ports, next_tunnel_id,
                            next_vni, next_network_id, net_next_vni>>
        ELSE /\ lastOp'.ok
             /\ FirstAdds(lastOp'.cmds, sw) =
                  [k \in 1..Len(network.switches) |->
                     PortName(network.vni,
                              GetVxlanIp(GetHostForSwitch(hosts, network.switches[k])))]
             /\ \A t \in DOMAIN tunnels :
                  t \in DOMAIN tunnels' /\ tunnels'[t] = tunnels[t]
             /\ \A k \in 1..Len(created) :
                  /\ tunnels'[created[k]].vni = network.vni
                  /\ tunnels'[created[k]].src_switch_id = switch_id
                  /\ IsMember(network, tunnels'[created[k]].dst_switch_id)
             /\ networks' = [networks EXCEPT ![network.id] =
                   [network EXCEPT !.switches = Append(@, switch_id),
                                   !.tunnels = @ \o created]]
             /\ LoadConfig(netFile').networks = networks'

C27Step ==
  lastOp'.op = "add_host"
  => /\ lastOp'.fail \in ProbeFailures => ~lastOp'.ok
     /\ IF ~lastOp'.ok
        THEN UNCHANGED <<hosts, next_host_id, hostsFile>>
        ELSE /\ Len(hosts') = Len(hosts) + 1
             /\ SubSeq(hosts', 1, Len(hosts)) = hosts
             /\ hosts'[Len(hosts')].id = next_host_id
             /\ lastOp'.id = next_host_id
             /\ \A i \in 1..Len(hosts) : hosts[i].id # next_host_id
             /\ hosts'[Len(hosts')].ip = lastOp'.host_ip
             /\ hosts'[Len(hosts')].ssh_password = lastOp'.password
             /\ next_host_id' = next_host_id + 1
             /\ hostsFile' = [hosts |-> SavedHosts(hosts'),
                              next_host_id |-> next_host_id']
             /\ \E k \in 1..Len(hostsFile'.hosts) :
                  /\ hostsFile'.hosts[k].id = next_host_id
                  /\ hostsFile'.hosts[k].ssh_password = lastOp'.password

C28Step ==
  lastOp'.op = "restart"
  => \A k \in 1..Len(hostsFile.hosts) :
       \E i \in 1..Len(hosts') :
         /\ hosts'[i].id = hostsFile.hosts[k].id
         /\ hosts'[i].ip = hostsFile.hosts[k].ip
         /\ hosts'[i].status = IF hostsFile.hosts[k].hostname \in lastOp'.up
                               THEN "online" ELSE "unreachable"

C28_ReloadMarksUnreachable == [][C28Step]_vars

\* ------------------------------------------------------------------ C29
HostIds(hs) == {hs[i].id : i \in 1..Len(hs)}

\* C29: removing a host in forget mode deletes its record, so that the
\* host_id is unknown afterwards; removing it in detach mode keeps the
\* record with its credentials and takes the host out of the
\* participating (online) hosts; neither mode changes a port on a bridge.
C29Step ==
  (lastOp'.op = "remove_host" /\ lastOp'.id \in HostIds(hosts))
  => /\ ports' = ports
     /\ IF lastOp'.fail = "forget"
        THEN lastOp'.id \notin HostIds(hosts')
        ELSE \E i \in 1..Len(hosts') :
               /\ hosts'[i].id = lastOp'.id
               /\ hosts'[i].status # "online"
               /\ hosts'[i].ssh_password =
                    GetHostById(hosts, lastOp'.id).ssh_password

C29_RemovalModes == [][C29Step]_vars

\* ------------------------------------------------------------------ C30
\* the registry with every stored password replaced by pw
Repassword(hs, pw) ==
  [i \in 1..Len(hs) |->
     IF "ssh_password" \in DOMAIN hs[i]
     THEN [hs[i] EXCEPT !.ssh_password = pw] ELSE hs[i]]

NoSecretKey(listing) ==
  \A i \in 1..Len(listing) : "ssh_password" \notin DOMAIN listing[i]

\* C30: the host listing (get_all_hosts, the /api/hosts response and the
\* host of the /api/hosts/add response) carries no stored secret: it has
\* no password field, and a registry that differs from the current one in
\* the stored passwords only gives the same listing.
C30_ListingCarriesNoSecret ==
  /\ NoSecretKey(GetAllHosts(hosts)) /\ NoSecretKey(ApiHosts(hosts))
  /\ \A pw \in HostPasswordInputs :
       /\ GetAllHosts(Repassword(hosts, pw)) = GetAllHosts(hosts)
       /\ ApiHosts(Repassword(hosts, pw)) = ApiHosts(hosts)
  /\ (lastOp.op = "add_host" /\ lastOp.ok) =>
       /\ "ssh_password" \notin DOMAIN lastOp.host
       /\ \E i \in 1..Len(hosts) :
            /\ hosts[i].id = lastOp.id
            /\ \A pw \in HostPasswordInputs :
                 lastOp.host = SafeHostInfo([hosts[i] EXCEPT !.ssh_password = pw])

\* Two remote hosts are stored with different passwords, the second one
\* registered by the last request.
C30_Witness ==
  /\ lastOp.op = "add_host" /\ lastOp.ok
  /\ lastOp.password = OtherPassword
  /\ \E i, j \in 1..Len(hosts) :
       /\ hosts[i].type = "remote" /\ hosts[j].type = "remote"
       /\ hosts[i].ssh_password = StoredPassword
       /\ hosts[j].ssh_password = OtherPassword /\ hosts[j].id = lastOp.id

\* ------------------------------------------------------------------ C31
\* The commands and updates of one request form one uninterrupted run of
\* the log.
LogContiguous(log) ==
  \A i, k \in 1..Len(log) :
    (i < k /\ log[i][1] = log[k][1]) =>
      \A j \in i..k : log[j][1] = log[i][1]

\* Two create requests that were answered obtained different ids (of the
\* same kind) and different auto-allocated VNIs.
ObtainedDistinct(done) ==
  \A i, j \in 1..Len(done) :
    (i < j /\ done[i].kind # "enable_dhcp" /\ done[j].kind # "enable_dhcp") =>
      /\ (done[i].kind = done[j].kind /\ done[i].ok /\ done[j].ok)
           => done[i].id # done[j].id
      /\ (done[i].vni # None /\ done[j].vni # None)
           => done[i].vni # done[j].vni

\* C31: with requests arriving while another is in progress, the remote
\* commands and registry updates of one create operation are never
\* interleaved with those of another request, and two create requests never
\* obtain the same tunnel_id, network_id or auto-allocated VNI.
C31_HandlersNeverInterleave ==
  /\ LogContiguous(server.log)
  /\ ObtainedDistinct(server.done)

\* C31 witness: a create request arrived while another request was waiting
\* or in progress, and both were answered with an id.
C31_Witness ==
  \E i, j \in 1..Len(server.done) :
    /\ i < j
    /\ server.done[i].kind = server.done[j].kind
    /\ server.done[i].kind # "enable_dhcp"
    /\ server.done[i].ok /\ server.done[j].ok
    /\ server.done[j].overlap
    /\ \E k \in 1..Len(server.log) : server.log[k][1] = server.done[i].rid
    /\ \E k \in 1..Len(server.log) : server.log[k][1] = server.done[j].rid

\* ------------------------------------------------------------------ C32
\* the switch ids held in the network and tunnel records
StoredSwitchIds ==
  UNION {Range(networks[n].switches) : n \in DOMAIN networks}
  \cup {tunnels[t].src_switch_id : t \in DOMAIN tunnels}
  \cup {tunnels[t].dst_switch_id : t \in DOMAIN tunnels}

\* C32: a switch_id stored in a network or tunnel record resolves to the
\* same (host, bridge) on every later listing, also after a controller
\* restart that reloads the same hosts.
C32_SwitchIdsStable ==
  [][\A s \in StoredSwitchIds :
       GetSwitchById(hosts, s) # NoSwitch =>
         /\ GetSwitchById(hosts', s).hostname = GetSwitchById(hosts, s).hostname
         /\ GetSwitchById(hosts', s).name = GetSwitchById(hosts, s).name]_vars

\* ------------------------------------------------------------------ C33
\* C33: after discover_tunnels the tunnel manager's VNI counter is strictly
\* greater than every VNI observed on a VXLAN port of a host during the
\* discovery, ports whose pair was skipped included.
C33_CounterPastObservedVnis ==
  [][lastOp'.op \in {"restart", "discover"} =>
       \A i \in 1..Len(hosts') :
         \A p \in Range(GetVxlanPorts(hosts'[i], ports, lastOp'.scan)) :
           next_vni' > p.vni]_vars

\* ------------------------------------------------------------------ C34
\* the config file of the network on its designated host lists exactly the
\* reservations held in memory
DeployedMatchesMemory(configs, m, hs, network_id) ==
  \E f \in m.conf_files :
    /\ f.host = MachineAt(hs, configs[network_id].host_ip)
    /\ f.path = configs[network_id].config_path
    /\ f.content.dhcp_hosts = configs[network_id].reservations

\* the file was written and dnsmasq restarted after it, both with success
RewrittenThenRestarted(c) ==
  \E i, j \in 1..Len(c) :
    /\ i < j
    /\ c[i].cmd = "write" /\ c[i].ok
    /\ c[j].cmd = "restart" /\ c[j].ok

\* C34: whenever add_reservation or delete_reservation returns success, the
\* deployed config file has been rewritten from the in-memory reservation
\* list and dnsmasq has been restarted after the rewrite.
C34_SuccessMeansDeployed ==
  [][(lastOp'.op \in {"add_reservation", "delete_reservation"} /\ lastOp'.ok)
       => /\ DeployedMatchesMemory(dhcp_configs', machines', hosts, lastOp'.id)
          /\ RewrittenThenRestarted(lastOp'.cmds)]_vars

\* ------------------------------------------------------------------ C35
\* lowercase, colon-separated
CanonicalMac(mac) == ~mac.upper /\ mac.sep = ":"

\* C35: every reservation MAC stored in a DhcpConfig is in lowercase
\* colon-separated form, for every accepted input spelling, so that
\* add_reservation with one spelling followed by delete_reservation with
\* another spelling of the same MAC removes the reservation.
C35_StoredMacsCanonical ==
  /\ \A n \in DOMAIN dhcp_configs :
       \A i \in 1..Len(dhcp_configs[n].reservations) :
         CanonicalMac(dhcp_configs[n].reservations[i].mac)
  /\ (lastOp.op = "delete_reservation" /\ lastOp.id \in DOMAIN dhcp_configs
      /\ lastOp.password # NoPassword)
       => \A i \in 1..Len(dhcp_configs[lastOp.id].reservations) :
            dhcp_configs[lastOp.id].reservations[i].mac.digits
              # lastOp.mac.digits

\* ------------------------------------------------------------------ C36
\* the request that is answered in this step names an id its component
\* does not hold, or a MAC that has no reservation
C36Case ==
  \/ lastOp'.op = "delete_tunnel" /\ lastOp'.id \notin DOMAIN tunnels
  \/ lastOp'.op \in {"delete_network", "add_switch"}
     /\ lastOp'.id \notin DOMAIN networks
  \/ lastOp'.op \in {"disable_dhcp", "get_dhcp_leases", "add_reservation",
                     "delete_reservation"}
     /\ lastOp'.id \notin DOMAIN dhcp_configs
  \/ lastOp'.op = "delete_reservation" /\ lastOp'.id \in DOMAIN dhcp_configs
     /\ \A i \in 1..Len(dhcp_configs[lastOp'.id].reservations) :
          dhcp_configs[lastOp'.id].reservations[i].mac.digits
            # lastOp'.mac.digits

\* C36: an operation addressed to an unknown id (or delete_reservation for
\* a MAC with no reservation) returns a failure result, changes no state
\* and issues no remote command.
C36_UnknownIdChangesNothing ==
  [][C36Case =>
       /\ ~lastOp'.ok
       /\ lastOp'.cmds = <<>>
       /\ UNCHANGED <<hosts, next_host_id, hostsFile, ports, tunnels,
                      next_tunnel_id, next_vni, networks, next_network_id,
                      net_next_vni, netFile, dhcp_configs, dhcpFile,
                      machines, now>>]_vars

\* C36 witness: a network whose DHCP configuration holds a reservation is
\* asked to delete the reservation of another MAC, while tunnels, networks
\* and configurations exist next to the unknown ids.
C36_Witness ==
  /\ lastOp.op = "delete_reservation" /\ ~lastOp.ok
  /\ lastOp.id \in DOMAIN dhcp_configs
  /\ dhcp_configs[lastOp.id].reservations # <<>>
  /\ tunnels # <<>>

\* ------------------------------------------------------------------ C37
\* C37: after a controller restart followed by tunnel discovery,
\* delete_network of a persisted network deletes only tunnels that carry
\* that network's VNI and connect two of its member switches.
C37_DeletesOnlyOwnTunnels ==
  [][(lastOp.op = "restart" /\ lastOp'.op = "delete_network" /\ lastOp'.ok)
       => \A t \in DOMAIN tunnels \ DOMAIN tunnels' :
            /\ tunnels[t].vni = lastOp'.vni
            /\ tunnels[t].src_switch_id \in Range(lastOp'.switches)
            /\ tunnels[t].dst_switch_id \in Range(lastOp'.switches)]_vars

\* ------------------------------------------------------------------ C38
\* a VXLAN port with that name exists on that bridge of that host, with
\* that VNI and that remote address
PortExists(pt, hn, bridge, name, vni, remote_ip) ==
  \E p \in pt : /\ p.host = hn /\ p.bridge = bridge /\ p.name = name
                /\ p.vni = vni /\ p.remote_ip = remote_ip

\* C38: for every tunnel record made by discovery, the recorded bridge and
\* port name of each endpoint identify a VXLAN port that exists on that
\* host with the record's VNI and the peer's overlay IP.
C38_DiscoveredRecordsNameRealPorts ==
  [][lastOp'.op \in {"restart", "discover"} =>
       \A t \in DOMAIN tunnels' :
         (tunnels'[t].discovered
          /\ (lastOp'.op = "restart" \/ t \notin DOMAIN tunnels)) =>
           /\ PortExists(ports, tunnels'[t].src_host,
                         tunnels'[t].src_switch_name,
                         tunnels'[t].tunnel_name_src, tunnels'[t].vni,
                         tunnels'[t].dst_vxlan_ip)
           /\ PortExists(ports, tunnels'[t].dst_host,
                         tunnels'[t].dst_switch_name,
                         tunnels'[t].tunnel_name_dst, tunnels'[t].vni,
                         tunnels'[t].src_vxlan_ip)]_vars

\* ------------------------------------------------------------------ C39
\* the dhcp-host lines of the network's config file on its designated host
DeployedReservations(configs, m, hs, network_id) ==
  {f.content.dhcp_hosts : f \in {g \in m.conf_files :
      /\ g.host = MachineAt(hs, configs[network_id].host_ip)
      /\ g.path = configs[network_id].config_path}}

\* C39: enable_dhcp on a network that already has a DhcpConfig with
\* reservations leaves that network's reservation list unchanged, in the
\* stored DhcpConfig and in the deployed config file.
C39_EnableKeepsReservations ==
  [][(/\ lastOp'.op = "enable_dhcp"
      /\ lastOp'.id \in DOMAIN dhcp_configs
      /\ dhcp_configs[lastOp'.id].reservations # <<>>) =>
       /\ lastOp'.id \in DOMAIN dhcp_configs'
       /\ dhcp_configs'[lastOp'.id].reservations
            = dhcp_configs[lastOp'.id].reservations
       /\ DeployedReservations(dhcp_configs', machines', hosts, lastOp'.id)
            = DeployedReservations(dhcp_configs, machines, hosts, lastOp'.id)]_vars

\* ------------------------------------------------------------------ C40
\* one step of a controller process: the counter is above every stored id
\* afterwards, it never goes back, an id stored in this step was never
\* given out before, and a failed create_tunnel stores nothing and leaves
\* the counter alone
C40Step ==
  /\ \A t \in DOMAIN tunnels' : t < next_tunnel_id'
  /\ lastOp'.op # "restart" =>
       /\ next_tunnel_id' >= next_tunnel_id
       /\ \A t \in DOMAIN tunnels' \ DOMAIN tunnels : t >= next_tunnel_id
  /\ (lastOp'.op = "create_tunnel" /\ ~lastOp'.ok) =>
       /\ tunnels' = tunnels
       /\ next_tunnel_id' = next_tunnel_id

\* C40: within one controller process tunnel ids are unique and never
\* reused: next_tunnel_id is strictly greater than the id of every tunnel
\* ever stored by create_tunnel or discover_tunnels, also after tunnels are
\* deleted, and a failed create_tunnel stores no record and does not
\* advance next_tunnel_id.
C40_TunnelIdsNeverReused == [][C40Step]_vars

\* C40 witness: a create_tunnel has failed after its commands were sent,
\* in a process that has stored tunnels and deleted one of them.
C40_Witness ==
  /\ lastOp.op = "create_tunnel" /\ ~lastOp.ok /\ lastOp.cmds # <<>>
  /\ tunnels # <<>>
  /\ next_tunnel_id > FirstId + Cardinality(DOMAIN tunnels)

====
